---- MODULE Spec2Model ----
(***************************************************************************)
(* Model of the session recorder of ai-context-reporter                    *)
(* (chrome-extension/lib/session-recorder.js; the Safari content script    *)
(* carries the same code).  The state is the page-context session object   *)
(* window.__AI_CONTEXT_SESSION__, the clock Date.now(), the requests the   *)
(* wrapped fetch / XMLHttpRequest.send have in flight, the response-body   *)
(* reads that have not settled, and the Session object the last stop()     *)
(* handed to its caller.  One action per handler of the injected script.   *)
(***************************************************************************)
EXTENDS Integers, Sequences, FiniteSets, TLC

\* ---------------------------------------------------------------- bounds
\* A run creates entry objects (a followed request counts from its start) and
\* advances the clock at most MaxEvents times in all.
MaxEvents == 3
\* The ring-buffer caps.  The code uses 200 (MAX_ENTRIES, line 96), 100
\* (literal, lines 236 and 304) and 500 (literal, line 396); the model scales
\* them down so that a buffer can be filled and overflowed within MaxEvents.
MAX_ENTRIES == 2
MAX_NETWORK_ENTRIES == 2
MAX_INTERACTIONS == 2
\* The cap the specification puts on the snapshot list (50), scaled alike; the
\* code has no such constant.
MAX_SNAPSHOTS == 2

\* ------------------------------------------------------------ input sets
\* null / undefined / '' of the code (falsy for `x || default`).
NULL == "null"
\* the page's own calls; the recorder itself logs with console.info
ConsoleTypes == {"log", "error"}
\* response.status of a fulfilled fetch: ok, not modified, client error
FetchStatuses == {200, 304, 404}
\* xhr.status at loadend: no response (network error, abort, timeout), ok,
\* client error
XhrStatuses == {0, 200, 404}
SessionIdArgs == {NULL, "sid"}
LabelArgs == {NULL, "label"}
InteractionTypes == {"click"}

VARIABLES
    session,     \* window.__AI_CONTEXT_SESSION__
    now,         \* Date.now()
    pending,     \* requests started by the wrappers while recording, not yet completed
    bodyReads,   \* ids of entries whose clonedResponse.text() has not settled
    returned,    \* the object the last __AI_CONTEXT_STOP_SESSION__() returned
    aliased,     \* TRUE while returned's four lists are the very arrays of session
    ret,         \* what the control function that ran last returned (stop: see
                 \* returned); "none" once another handler has run
    nextUid,     \* identity of the next entry object created
    appended,    \* per buffer, the uids appended since the last start(), in order
    call,        \* one call of a function studied on its own: arguments and result
    page         \* a page context the injectors are evaluated in: what is installed

vars == <<session, now, pending, bodyReads, returned, aliased, ret,
          nextUid, appended, call, page>>

\* what the session recorder leaves alone
aux == <<call, page>>

LogNames == {"consoleLog", "networkLog", "interactions", "snapshots"}

\* ------------------------------------------------------- array operations
\* arr.push(e)
Push(arr, e) == Append(arr, e)

\* arr.push(e); if (arr.length > cap) arr.shift();
PushShift(arr, e, cap) ==
    LET a == Append(arr, e) IN IF Len(a) > cap THEN Tail(a) ELSE a

\* response.ok
ResponseOk(status) == status >= 200 /\ status <= 299

\* ------------------------------------------------------ the session object
\* startTime 0 stands for null and endTime 0 for undefined: Date.now() is
\* positive, and JavaScript's `t - null` is t.
InitSession ==
    [isRecording |-> FALSE, sessionId |-> NULL, startTime |-> 0, endTime |-> 0,
     consoleLog |-> <<>>, networkLog |-> <<>>, interactions |-> <<>>,
     snapshots |-> <<>>]

NoReturn == [kind |-> "none"]

\* captureConsole(type, args): the wrapped console[type] calls it before the
\* original.
captureConsole(s, type, message, t, uid) ==
    IF ~s.isRecording THEN s
    ELSE [s EXCEPT !.consoleLog =
            PushShift(@, [uid |-> uid, type |-> type, message |-> message,
                          timestamp |-> t], MAX_ENTRIES)]

\* window 'error' listener
onError(s, t, uid) ==
    IF ~s.isRecording THEN s
    ELSE [s EXCEPT !.consoleLog =
            Push(@, [uid |-> uid, type |-> "error", message |-> "event",
                     timestamp |-> t])]

\* window 'unhandledrejection' listener
onUnhandledRejection(s, t, uid) ==
    IF ~s.isRecording THEN s
    ELSE [s EXCEPT !.consoleLog =
            Push(@, [uid |-> uid, type |-> "error", message |-> "[Promise]",
                     timestamp |-> t])]

\* a start() that forgets to reset the console log
StartSessionFnKeepConsole(s, id, t, uid) ==
    LET s1 == [s EXCEPT !.isRecording = TRUE,
                        !.sessionId = IF id = NULL THEN ToString(t) ELSE id,
                        !.startTime = t,
                        !.networkLog = <<>>,
                        !.interactions = <<>>,
                        !.snapshots = <<>>]
    IN captureConsole(s1, "info", "started", t, uid)

\* window.__AI_CONTEXT_START_SESSION__(sessionId), its console.info included
StartSessionFn(s, id, t, uid) ==
    LET s1 == [s EXCEPT !.isRecording = TRUE,
                        !.sessionId = IF id = NULL THEN ToString(t) ELSE id,
                        !.startTime = t,
                        !.consoleLog = <<>>,
                        !.networkLog = <<>>,
                        !.interactions = <<>>,
                        !.snapshots = <<>>]
    IN captureConsole(s1, "info", "started", t, uid)

\* window.__AI_CONTEXT_STOP_SESSION__(): the session object afterwards
StopSessionFn(s, t, uid) ==
    LET s1 == [s EXCEPT !.isRecording = FALSE, !.endTime = t]
    IN captureConsole(s1, "info", "stopped", t, uid)

\* a stop() that reports endTime as the duration
StopSessionResultNoStart(s) ==
    [kind |-> "session", sessionId |-> s.sessionId, startTime |-> s.startTime,
     endTime |-> s.endTime, duration |-> s.endTime,
     consoleLog |-> <<>>, networkLog |-> <<>>, interactions |-> <<>>,
     snapshots |-> <<>>]

\* window.__AI_CONTEXT_STOP_SESSION__(): the scalar fields of the object it
\* returns; its four lists are the arrays of the session themselves.
StopSessionResult(s) ==
    [kind |-> "session", sessionId |-> s.sessionId, startTime |-> s.startTime,
     endTime |-> s.endTime, duration |-> s.endTime - s.startTime,
     consoleLog |-> <<>>, networkLog |-> <<>>, interactions |-> <<>>,
     snapshots |-> <<>>]

\* window.__AI_CONTEXT_TAKE_SNAPSHOT__(label): the snapshot object
SnapshotOf(s, label, t, uid) ==
    [uid |-> uid,
     label |-> IF label = NULL
               THEN "Snapshot " \o ToString(Len(s.snapshots) + 1) ELSE label,
     timestamp |-> t]

\* a snapshot() that does not look at isRecording
TakeSnapshotFnUngated(s, label, t, uid) ==
    captureConsole([s EXCEPT !.snapshots = Push(@, SnapshotOf(s, label, t, uid))],
                   "info", "snapshot", t, uid + 1)

\* window.__AI_CONTEXT_TAKE_SNAPSHOT__(label), its console.info included
TakeSnapshotFn(s, label, t, uid) ==
    IF ~s.isRecording THEN s
    ELSE captureConsole([s EXCEPT !.snapshots = Push(@, SnapshotOf(s, label, t, uid))],
                        "info", "snapshot", t, uid + 1)

\* a status() that keeps counting the time after stop()
GetSessionRunningClock(s, t) ==
    [kind |-> "status",
     isRecording |-> s.isRecording,
     sessionId |-> s.sessionId,
     startTime |-> s.startTime,
     duration |-> t - s.startTime,
     consoleCount |-> Len(s.consoleLog),
     networkCount |-> Len(s.networkLog),
     interactionCount |-> Len(s.interactions),
     snapshotCount |-> Len(s.snapshots)]

\* window.__AI_CONTEXT_GET_SESSION__()
GetSession(s, t) ==
    [kind |-> "status",
     isRecording |-> s.isRecording,
     sessionId |-> s.sessionId,
     startTime |-> s.startTime,
     duration |-> IF s.isRecording THEN t - s.startTime ELSE 0,
     consoleCount |-> Len(s.consoleLog),
     networkCount |-> Len(s.networkLog),
     interactionCount |-> Len(s.interactions),
     snapshotCount |-> Len(s.snapshots)]

\* window.__AI_CONTEXT_ADD_INTERACTION__(interaction)
AddInteractionFn(s, type, t, uid) ==
    IF ~s.isRecording THEN s
    ELSE [s EXCEPT !.interactions =
            PushShift(@, [uid |-> uid, type |-> type, timestamp |-> t],
                      MAX_INTERACTIONS)]

\* the NetworkEntry the fetch wrapper builds in its .then branch
FetchEntry(p, status, t) ==
    [uid |-> p.uid, via |-> "fetch", status |-> status,
     responseBody |-> NULL, duration |-> t - p.startTime,
     timestamp |-> p.startTime, failed |-> ~ResponseOk(status)]

\* the fetch wrapper's .then branch
onFetchResolved(s, p, status, t) ==
    [s EXCEPT !.networkLog =
        PushShift(@, FetchEntry(p, status, t), MAX_NETWORK_ENTRIES)]

\* the fetch wrapper's .catch branch
onFetchRejected(s, p, t) ==
    [s EXCEPT !.networkLog =
        Push(@, [uid |-> p.uid, via |-> "fetch", status |-> 0,
                 responseBody |-> NULL, duration |-> t - p.startTime,
                 timestamp |-> p.startTime, failed |-> TRUE])]

\* the 'loadend' listener the XMLHttpRequest.prototype.send wrapper adds
onLoadend(s, p, status, body, t) ==
    [s EXCEPT !.networkLog =
        PushShift(@, [uid |-> p.uid, via |-> "xhr", status |-> status,
                      responseBody |-> body, duration |-> t - p.startTime,
                      timestamp |-> p.startTime,
                      failed |-> (status = 0 \/ status >= 400)],
                  MAX_NETWORK_ENTRIES)]

\* entry.responseBody = text.substring(0, MAX_BODY) on the entry object uid,
\* wherever that object is held
SetBody(log, uid, text) ==
    [i \in DOMAIN log |->
        IF log[i].uid = uid THEN [log[i] EXCEPT !.responseBody = text] ELSE log[i]]

\* -------------------------------------------------------------- ghosts
Uids(log) == [i \in DOMAIN log |-> log[i].uid]

UidSet(log) == {log[i].uid : i \in DOMAIN log}

\* the entries of `log` that `old` does not hold
Fresh(old, log) == SelectSeq(log, LAMBDA e: e.uid \notin UidSet(old))

\* the uids this step appended, added to the history of each buffer
Track(h, s, s2) == [k \in LogNames |-> h[k] \o Uids(Fresh(s[k], s2[k]))]

NoHistory == [k \in LogNames |-> <<>>]

\* number of entry objects a handler created, taking session s to s2
Created(s, s2) ==
    Len(Fresh(s.consoleLog, s2.consoleLog)) + Len(Fresh(s.networkLog, s2.networkLog))
    + Len(Fresh(s.interactions, s2.interactions)) + Len(Fresh(s.snapshots, s2.snapshots))

\* The object returned by the last stop(), as its holder sees it.
Returned ==
    IF aliased
    THEN [returned EXCEPT !.consoleLog = session.consoleLog,
                          !.networkLog = session.networkLog,
                          !.interactions = session.interactions,
                          !.snapshots = session.snapshots]
    ELSE returned

\* what a run has used of MaxEvents
Used == (nextUid - 1) + (now - 1)

\* ---------------------------------------------------------------- Init
RecorderInit ==
    /\ session = InitSession
    /\ now = 1
    /\ pending = {}
    /\ bodyReads = {}
    /\ returned = NoReturn
    /\ aliased = FALSE
    /\ ret = NoReturn
    /\ nextUid = 1
    /\ appended = NoHistory

\* no such call is under way
NoCall == [phase |-> "none"]

\* no page context is under study
NoPage == [phase |-> "none"]

Init ==
    /\ RecorderInit
    /\ call = NoCall
    /\ page = NoPage

\* A handler that leaves the session object as s2 and returns r; the entry
\* objects it created are new ones.
Step(s2, r) ==
    /\ session' = s2
    /\ nextUid' = nextUid + Created(session, s2)
    /\ appended' = Track(appended, session, s2)
    /\ ret' = r
    /\ UNCHANGED aux

\* A wrapper's completion handler that leaves the session object as s2; the
\* entry object is the one its request stands for.
Complete(s2) ==
    /\ session' = s2
    /\ appended' = Track(appended, session, s2)
    /\ ret' = NoReturn
    /\ UNCHANGED <<nextUid, aux>>

\* A handler that may create n entry objects has room for them; one that
\* finds isRecording false creates none.
Room(n) == session.isRecording => Used + n <= MaxEvents

\* A wrapper called for a request: recording, it follows the request.
Start(via) ==
    /\ Room(1)
    /\ IF session.isRecording
       THEN /\ pending' = pending \cup {[uid |-> nextUid, via |-> via, startTime |-> now]}
            /\ nextUid' = nextUid + 1
       ELSE UNCHANGED <<pending, nextUid>>
    /\ ret' = NoReturn
    /\ UNCHANGED <<session, appended, now, bodyReads, returned, aliased, aux>>

\* Date.now() advances between handlers.
Tick ==
    /\ Used < MaxEvents
    /\ now' = now + 1
    /\ ret' = NoReturn
    /\ UNCHANGED <<session, pending, bodyReads, returned, aliased, nextUid, appended, aux>>

\* window.__AI_CONTEXT_START_SESSION__(sessionId)
StartSession ==
    \E id \in SessionIdArgs :
        /\ Used < MaxEvents
        /\ LET s2 == StartSessionFn(session, id, now, nextUid) IN
            /\ session' = s2
            /\ appended' = Track(NoHistory, InitSession, s2)
            /\ ret' = [kind |-> "sessionId", sessionId |-> s2.sessionId]
        /\ nextUid' = nextUid + 1
        \* the arrays of the previous session stay with the object stop() returned
        /\ returned' = Returned
        /\ aliased' = FALSE
        /\ UNCHANGED <<now, pending, bodyReads, aux>>

\* window.__AI_CONTEXT_STOP_SESSION__()
StopSession ==
    /\ LET s2 == StopSessionFn(session, now, nextUid) IN
        /\ Step(s2, [kind |-> "session"])
        /\ returned' = StopSessionResult(s2)
    /\ aliased' = TRUE
    /\ UNCHANGED <<now, pending, bodyReads>>

\* window.__AI_CONTEXT_TAKE_SNAPSHOT__(label)
TakeSnapshot ==
    \E label \in LabelArgs :
        /\ Room(2)
        /\ Step(TakeSnapshotFn(session, label, now, nextUid),
                IF session.isRecording
                THEN [kind |-> "snapshot",
                      snapshot |-> SnapshotOf(session, label, now, nextUid)]
                ELSE [kind |-> "null"])
        /\ UNCHANGED <<now, pending, bodyReads, returned, aliased>>

\* window.__AI_CONTEXT_GET_SESSION__()
GetSessionCall ==
    /\ Step(session, GetSession(session, now))
    /\ UNCHANGED <<now, pending, bodyReads, returned, aliased>>

\* The page calls one of the wrapped console methods.
ConsoleCall ==
    \E type \in ConsoleTypes :
        /\ Room(1)
        /\ Step(captureConsole(session, type, "page", now, nextUid), NoReturn)
        /\ UNCHANGED <<now, pending, bodyReads, returned, aliased>>

\* An uncaught error reaches window.
ErrorEvent ==
    /\ Room(1)
    /\ Step(onError(session, now, nextUid), NoReturn)
    /\ UNCHANGED <<now, pending, bodyReads, returned, aliased>>

\* A promise rejection goes unhandled.
UnhandledRejection ==
    /\ Room(1)
    /\ Step(onUnhandledRejection(session, now, nextUid), NoReturn)
    /\ UNCHANGED <<now, pending, bodyReads, returned, aliased>>

\* The interaction recorder hands over an interaction.
AddInteraction ==
    \E type \in InteractionTypes :
        /\ Room(1)
        /\ Step(AddInteractionFn(session, type, now, nextUid), NoReturn)
        /\ UNCHANGED <<now, pending, bodyReads, returned, aliased>>

\* window.fetch(input, init): not recording, the call goes straight to the
\* original; recording, the wrapper notes the start time and chains its
\* handlers on the original's promise.
FetchCall == Start("fetch")

\* The original fetch's promise fulfils: the .then branch runs.
FetchResolved ==
    \E p \in pending, status \in FetchStatuses :
        /\ p.via = "fetch"
        /\ Complete(onFetchResolved(session, p, status, now))
        /\ pending' = pending \ {p}
        /\ bodyReads' = bodyReads \cup {p.uid}
        /\ UNCHANGED <<now, returned, aliased>>

\* The original fetch's promise rejects: the .catch branch runs.
FetchRejected ==
    \E p \in pending :
        /\ p.via = "fetch"
        /\ Complete(onFetchRejected(session, p, now))
        /\ pending' = pending \ {p}
        /\ UNCHANGED <<now, bodyReads, returned, aliased>>

\* clonedResponse.text() settles: fulfilled, the entry object gets its body
\* (in whichever arrays hold it); rejected, nothing happens.
BodyReadSettled ==
    \E uid \in bodyReads, ok \in BOOLEAN :
        /\ bodyReads' = bodyReads \ {uid}
        /\ IF ok
           THEN /\ session' = [session EXCEPT !.networkLog = SetBody(@, uid, "text")]
                /\ returned' = IF returned.kind = "session" /\ ~aliased
                               THEN [returned EXCEPT !.networkLog = SetBody(@, uid, "text")]
                               ELSE returned
           ELSE UNCHANGED <<session, returned>>
        /\ ret' = NoReturn
        /\ UNCHANGED <<now, pending, aliased, nextUid, appended, aux>>

\* XMLHttpRequest.prototype.send(body): not recording, the call goes straight
\* to the original; recording, the wrapper adds its 'loadend' listener.
XhrSend == Start("xhr")

\* 'loadend' fires on an XMLHttpRequest sent while recording.
XhrLoadend ==
    \E p \in pending, status \in XhrStatuses, body \in {NULL, "text"} :
        /\ p.via = "xhr"
        /\ Complete(onLoadend(session, p, status, body, now))
        /\ pending' = pending \ {p}
        /\ UNCHANGED <<now, bodyReads, returned, aliased>>

Next ==
    \/ Tick
    \/ StartSession
    \/ StopSession
    \/ TakeSnapshot
    \/ GetSessionCall
    \/ ConsoleCall
    \/ ErrorEvent
    \/ UnhandledRejection
    \/ AddInteraction
    \/ FetchCall
    \/ FetchResolved
    \/ FetchRejected
    \/ BodyReadSettled
    \/ XhrSend
    \/ XhrLoadend

Spec == Init /\ [][Next]_vars

\* ------------------------------------------------------------------ claims
Caps == [consoleLog |-> MAX_ENTRIES, networkLog |-> MAX_NETWORK_ENTRIES,
         interactions |-> MAX_INTERACTIONS]

Buffers == <<session.consoleLog, session.networkLog, session.interactions,
             session.snapshots>>

\* what status() would report now
Counts == LET st == GetSession(session, now) IN
    <<st.consoleCount, st.networkCount, st.interactionCount, st.snapshotCount>>

BelowCaps ==
    /\ Len(session.consoleLog) < MAX_ENTRIES
    /\ Len(session.networkLog) < MAX_NETWORK_ENTRIES
    /\ Len(session.interactions) < MAX_INTERACTIONS

\* C1: once more than cap entries have been appended to a session log since
\* start(), the log holds exactly cap entries, and they are the last cap
\* entries appended, oldest first.
C1_RingBufferFifo ==
    \A k \in DOMAIN Caps :
        LET n == Len(appended[k]) IN
        n > Caps[k] =>
            /\ Len(session[k]) = Caps[k]
            /\ Uids(session[k]) = SubSeq(appended[k], n - Caps[k] + 1, n)

\* C2: in every reachable state each of the four lists of the session is
\* within its cap.
C2_BuffersWithinCaps ==
    /\ Len(session.consoleLog) <= MAX_ENTRIES
    /\ Len(session.networkLog) <= MAX_NETWORK_ENTRIES
    /\ Len(session.interactions) <= MAX_INTERACTIONS
    /\ Len(session.snapshots) <= MAX_SNAPSHOTS

\* C3: when start() has just returned, status() reports isRecording and four
\* counts of 0.
C3_StartThenStatus ==
    ret.kind = "sessionId" =>
        /\ GetSession(session, now).isRecording
        /\ Counts = <<0, 0, 0, 0>>

\* C4: while recording and below the caps, a console call, a network
\* completion, an interaction and a snapshot each raise the count of their own
\* buffer by one and leave the other three counts as they were.
C4_OwnCountOnly ==
    [][(session.isRecording /\ BelowCaps) =>
        /\ ConsoleCall =>
             Counts' = <<Counts[1] + 1, Counts[2], Counts[3], Counts[4]>>
        /\ (FetchResolved \/ FetchRejected \/ XhrLoadend) =>
             Counts' = <<Counts[1], Counts[2] + 1, Counts[3], Counts[4]>>
        /\ AddInteraction =>
             Counts' = <<Counts[1], Counts[2], Counts[3] + 1, Counts[4]>>
        /\ TakeSnapshot =>
             Counts' = <<Counts[1], Counts[2], Counts[3], Counts[4] + 1>>]_vars

\* C5: stop() called while recording clears isRecording, stamps endTime with
\* the current time and returns a Session whose duration is endTime minus the
\* startTime that the start() of this session recorded (startTime is set by
\* start() to the time of the call and by nothing else).
C5_StopDuration ==
    [][/\ (session.isRecording /\ StopSession) =>
            /\ ~session'.isRecording
            /\ session'.endTime = now
            /\ Returned'.endTime = now
            /\ Returned'.startTime = session.startTime
            /\ Returned'.duration = Returned'.endTime - session.startTime
       /\ StartSession => session'.startTime = now
       /\ session'.startTime # session.startTime => StartSession]_vars

\* C5 witness: stop() has just returned the Session of a recording that was
\* started earlier on the clock.
C5_Witness ==
    /\ ret.kind = "session"
    /\ returned.startTime > 0
    /\ returned.endTime > returned.startTime
    /\ returned.duration > 0

\* C6: while isRecording is false no console call, error event, unhandled
\* rejection, network completion or interaction changes a session buffer.
C6_NoAppendWhenStopped ==
    [][(/\ ~session.isRecording
        /\ \/ ConsoleCall
           \/ ErrorEvent
           \/ UnhandledRejection
           \/ FetchResolved
           \/ FetchRejected
           \/ XhrLoadend
           \/ AddInteraction) => Buffers' = Buffers]_vars

\* every entry the four lists hold
Entries(s) ==
    {s.consoleLog[i] : i \in DOMAIN s.consoleLog}
    \cup {s.networkLog[i] : i \in DOMAIN s.networkLog}
    \cup {s.interactions[i] : i \in DOMAIN s.interactions}
    \cup {s.snapshots[i] : i \in DOMAIN s.snapshots}

\* C7: start() called while recording returns a session id, keeps recording,
\* sets startTime to the time of the call, and leaves in the four lists no
\* entry that existed before the call.
C7_RestartDiscards ==
    [][(session.isRecording /\ StartSession) =>
        /\ ret'.kind = "sessionId"
        /\ session'.isRecording
        /\ session'.startTime = now
        /\ \A e \in Entries(session') : e.uid >= nextUid
        /\ session'.networkLog = <<>>
        /\ session'.interactions = <<>>
        /\ session'.snapshots = <<>>]_vars

\* C7 witness: start() has just returned, no stop() was ever called, and
\* entries had been created before this call: a recording with data was
\* restarted.
C7_Witness ==
    /\ ret.kind = "sessionId"
    /\ returned.kind = "none"
    /\ nextUid > 2
    /\ \A e \in Entries(session) : e.uid = nextUid - 1

\* the four lists of the Session object stop() returned
ReturnedLists ==
    IF returned.kind = "session"
    THEN <<Returned.consoleLog, Returned.networkLog, Returned.interactions,
           Returned.snapshots>>
    ELSE <<>>

\* C8: the lists of the Session object stop() returned, and the entries in
\* them, stay as they were when stop() returned for as long as no other stop()
\* hands out a new object.
C8_ReturnedFrozen ==
    [][(returned.kind = "session" /\ ~StopSession) =>
        ReturnedLists' = ReturnedLists]_vars

\* C9: snapshot() returns null and changes no list when not recording; when
\* recording it appends exactly one Snapshot, the one it returns, at the end
\* of the snapshot list.
C9_Snapshot ==
    [][TakeSnapshot =>
        IF ~session.isRecording
        THEN /\ ret'.kind = "null"
             /\ Buffers' = Buffers
        ELSE /\ ret'.kind = "snapshot"
             /\ Len(session'.snapshots) = Len(session.snapshots) + 1
             /\ SubSeq(session'.snapshots, 1, Len(session.snapshots)) = session.snapshots
             /\ session'.snapshots[Len(session'.snapshots)] = ret'.snapshot
             /\ ret'.snapshot.timestamp = now]_vars

\* C9 witness: snapshot() has just returned null on a stopped session that
\* holds the one snapshot taken while it was recording.
C9_Witness ==
    /\ ret.kind = "null"
    /\ returned.kind = "session"
    /\ ~session.isRecording
    /\ Len(session.snapshots) = 1

\* the time the session has run: up to now while recording, up to stop()
\* once stopped, nothing when none was started
ElapsedDuration ==
    IF session.isRecording THEN now - session.startTime
    ELSE IF session.startTime > 0 /\ session.endTime >= session.startTime
         THEN session.endTime - session.startTime
         ELSE 0

StatusCountsLive ==
    /\ ret.isRecording = session.isRecording
    /\ ret.consoleCount = Len(session.consoleLog)
    /\ ret.networkCount = Len(session.networkLog)
    /\ ret.interactionCount = Len(session.interactions)
    /\ ret.snapshotCount = Len(session.snapshots)
    /\ session.sessionId = NULL =>
         /\ ret.consoleCount = 0
         /\ ret.networkCount = 0
         /\ ret.interactionCount = 0
         /\ ret.snapshotCount = 0

\* C10 as stated: what status() has just returned are the live counts, the
\* recording flag and the elapsed duration of the session, in every state of
\* the controller.
C10_StatusElapsed ==
    ret.kind = "status" => (StatusCountsLive /\ ret.duration = ElapsedDuration)

\* C10 amended: status() changes nothing but its own result; the result holds
\* the live counts (all zero when no session was started) and the recording
\* flag, and its duration is now - startTime while recording and 0 otherwise.
C10_StatusLive ==
    [][GetSessionCall =>
        /\ UNCHANGED <<session, now, pending, bodyReads, returned, aliased,
                       nextUid, appended>>
        /\ ret'.kind = "status"
        /\ StatusCountsLive'
        /\ ret'.duration = IF session.isRecording THEN now - session.startTime ELSE 0]_vars

\* C10 witness: status() has just been called on a stopped session that ran
\* for some time and holds entries; it reports duration 0.
C10_Witness ==
    /\ ret.kind = "status"
    /\ ~session.isRecording
    /\ session.endTime > session.startTime
    /\ session.startTime > 0
    /\ ret.consoleCount > 0
    /\ ret.duration = 0

\* ------------------------------------------------- the bounded sanitizer
\* chrome-extension/lib/constants.js; the Safari shared-utils.js and the
\* injected copies carry the same two functions.  The caps are 200, 20 and 10
\* in the code; the model scales them down and builds its inputs around them.
MAX_STRING_LENGTH == 2
MAX_OBJECT_KEYS == 2
MAX_ARRAY_LENGTH == 2
MAX_OBJECT_DEPTH == 3

\* Runtime values.  Objects and arrays live in a heap and are referred to by
\* id, so that a value can contain itself.
Str(s) == [t |-> "string", v |-> s]
Num(n) == [t |-> "number", v |-> n]
Fn(name) == [t |-> "function", name |-> name]
Ref(id) == [t |-> "ref", id |-> id]
Null == [t |-> "null"]
Undefined == [t |-> "undefined"]
\* Results: a new array, a new object (its keys in insertion order)
Arr(items) == [t |-> "array", items |-> items]
Obj(props) == [t |-> "object", props |-> props]

\* String.prototype.startsWith, String.prototype.substring(start, end)
startsWith(s, prefix) ==
    Len(s) >= Len(prefix) /\ SubSeq(s, 1, Len(prefix)) = prefix

substring(s, start, end) ==
    SubSeq(s, start + 1, IF end > Len(s) THEN Len(s) ELSE end)

\* result[key] = val
SetKey(result, key, val) ==
    IF \E i \in DOMAIN result : result[i].key = key
    THEN [i \in DOMAIN result |->
            IF result[i].key = key THEN [key |-> key, val |-> val] ELSE result[i]]
    ELSE Append(result, [key |-> key, val |-> val])

RECURSIVE sanitizeValue(_, _, _, _)
RECURSIVE sanitizeObject(_, _, _, _)
RECURSIVE sanitizeKeys(_, _, _, _, _)

\* a sanitizeValue that gives up only below depth 0
sanitizeValueLate(h, value, depth, maxStringLength) ==
    IF depth < 0 THEN Str("[max depth]")
    ELSE IF value.t \in {"null", "undefined"} THEN value
    ELSE IF value.t = "string"
    THEN IF Len(value.v) > maxStringLength
         THEN Str(substring(value.v, 0, maxStringLength) \o "...")
         ELSE value
    ELSE IF value.t \in {"number", "boolean"} THEN value
    ELSE IF value.t = "function"
    THEN Str("[Function: " \o (IF value.name = "" THEN "anonymous" ELSE value.name) \o "]")
    ELSE IF h[value.id].kind = "array"
    THEN LET items == h[value.id].items IN
         IF Len(items) > MAX_ARRAY_LENGTH
         THEN Str("[Array(" \o ToString(Len(items)) \o ")]")
         ELSE Arr([i \in DOMAIN items |->
                    sanitizeValue(h, items[i], depth - 1, maxStringLength)])
    ELSE sanitizeObject(h, value, depth - 1, maxStringLength)

\* a sanitizeValue that keeps the end of a long string
sanitizeValueTail(h, value, depth, maxStringLength) ==
    IF depth <= 0 THEN Str("[max depth]")
    ELSE IF value.t \in {"null", "undefined"} THEN value
    ELSE IF value.t = "string"
    THEN IF Len(value.v) > maxStringLength
         THEN Str(substring(value.v, Len(value.v) - maxStringLength, Len(value.v)) \o "...")
         ELSE value
    ELSE IF value.t \in {"number", "boolean"} THEN value
    ELSE IF value.t = "function"
    THEN Str("[Function: " \o (IF value.name = "" THEN "anonymous" ELSE value.name) \o "]")
    ELSE IF h[value.id].kind = "array"
    THEN LET items == h[value.id].items IN
         IF Len(items) > MAX_ARRAY_LENGTH
         THEN Str("[Array(" \o ToString(Len(items)) \o ")]")
         ELSE Arr([i \in DOMAIN items |->
                    sanitizeValue(h, items[i], depth - 1, maxStringLength)])
    ELSE sanitizeObject(h, value, depth - 1, maxStringLength)

\* sanitizeValue(value, depth, maxStringLength); h is the heap
sanitizeValue(h, value, depth, maxStringLength) ==
    IF depth <= 0 THEN Str("[max depth]")
    ELSE IF value.t \in {"null", "undefined"} THEN value
    ELSE IF value.t = "string"
    THEN IF Len(value.v) > maxStringLength
         THEN Str(substring(value.v, 0, maxStringLength) \o "...")
         ELSE value
    ELSE IF value.t \in {"number", "boolean"} THEN value
    ELSE IF value.t = "function"
    THEN Str("[Function: " \o (IF value.name = "" THEN "anonymous" ELSE value.name) \o "]")
    ELSE IF h[value.id].kind = "array"
    THEN LET items == h[value.id].items IN
         IF Len(items) > MAX_ARRAY_LENGTH
         THEN Str("[Array(" \o ToString(Len(items)) \o ")]")
         ELSE Arr([i \in DOMAIN items |->
                    sanitizeValue(h, items[i], depth - 1, maxStringLength)])
    ELSE sanitizeObject(h, value, depth - 1, maxStringLength)

\* a sanitizeObject that caps at MAX_OBJECT_KEYS keys or more
sanitizeObjectAtCap(h, obj, depth, maxStringLength) ==
    IF depth <= 0 THEN Str("[max depth]")
    ELSE IF obj.t # "ref" THEN obj
    ELSE LET props == h[obj.id].props
             K == Len(props)
             keys == IF K >= MAX_OBJECT_KEYS THEN SubSeq(props, 1, MAX_OBJECT_KEYS)
                     ELSE props
             result ==
                IF K >= MAX_OBJECT_KEYS
                THEN <<[key |-> "...",
                        val |-> Str("(" \o ToString(K - MAX_OBJECT_KEYS) \o " more keys)")]>>
                ELSE <<>>
         IN Obj(sanitizeKeys(h, keys, result, depth, maxStringLength))

\* sanitizeObject(obj, depth, maxStringLength)
sanitizeObject(h, obj, depth, maxStringLength) ==
    IF depth <= 0 THEN Str("[max depth]")
    ELSE IF obj.t # "ref" THEN obj
    ELSE LET props == h[obj.id].props
             K == Len(props)
             keys == IF K > MAX_OBJECT_KEYS THEN SubSeq(props, 1, MAX_OBJECT_KEYS)
                     ELSE props
             result ==
                IF K > MAX_OBJECT_KEYS
                THEN <<[key |-> "...",
                        val |-> Str("(" \o ToString(K - MAX_OBJECT_KEYS) \o " more keys)")]>>
                ELSE <<>>
         IN Obj(sanitizeKeys(h, keys, result, depth, maxStringLength))

\* a key loop that skips only the double-underscore keys
sanitizeKeysUnderscore(h, keys, result, depth, maxStringLength) ==
    IF keys = <<>> THEN result
    ELSE LET p == Head(keys)
             r == IF startsWith(p.key, "__")
                  THEN result
                  ELSE SetKey(result, p.key,
                              IF p.throws
                              THEN Str("[Error reading property]")
                              ELSE sanitizeValue(h, p.val, depth, maxStringLength))
         IN sanitizeKeys(h, Tail(keys), r, depth, maxStringLength)

\* a key loop with its try/catch around the whole loop: the first read that
\* throws ends it
sanitizeKeysAbort(h, keys, result, depth, maxStringLength) ==
    IF keys = <<>> THEN result
    ELSE LET p == Head(keys) IN
         IF startsWith(p.key, "__") \/ startsWith(p.key, "$$")
         THEN sanitizeKeys(h, Tail(keys), result, depth, maxStringLength)
         ELSE IF p.throws
         THEN SetKey(result, p.key, Str("[Error reading property]"))
         ELSE sanitizeKeys(h, Tail(keys),
                           SetKey(result, p.key,
                                  sanitizeValue(h, p.val, depth, maxStringLength)),
                           depth, maxStringLength)

\* keys.forEach(function(key) {...}) of sanitizeObject
sanitizeKeys(h, keys, result, depth, maxStringLength) ==
    IF keys = <<>> THEN result
    ELSE LET p == Head(keys)
             r == IF startsWith(p.key, "__") \/ startsWith(p.key, "$$")
                  THEN result
                  ELSE SetKey(result, p.key,
                              IF p.throws
                              THEN Str("[Error reading property]")
                              ELSE sanitizeValue(h, p.val, depth, maxStringLength))
         IN sanitizeKeys(h, Tail(keys), r, depth, maxStringLength)

\* ---------------------------------------------------- sanitizer inputs
\* Object 1 has some of these properties, in this enumeration order: self is
\* the object itself, b the array 2, c a string over the cap; thrower names the
\* property whose read throws.
KeyOrder == <<"__r", "self", "$$t", "b", "...", "c", "d">>

KeySet == {KeyOrder[i] : i \in DOMAIN KeyOrder}

LongString == "wxyz"

ValueOfKey == [k \in KeySet |->
    CASE k = "self" -> Ref(1)
      [] k = "b" -> Ref(2)
      [] k = "c" -> Str(LongString)
      [] k = "d" -> Fn("")
      [] k = "__r" -> Ref(1)
      [] k = "$$t" -> Str("t")
      [] OTHER -> Num(1)]

Throwers == {NULL, "self", "c"}

PropsOf(S, thrower) ==
    SelectSeq([i \in DOMAIN KeyOrder |->
                 [key |-> KeyOrder[i], val |-> ValueOfKey[KeyOrder[i]],
                  throws |-> (KeyOrder[i] = thrower)]],
              LAMBDA p : p.key \in S)

\* Array 2 holds objects 1 and itself, up to one item over the cap.
ItemSeqs == UNION {[1..n -> {Ref(1), Ref(2)}] : n \in 0..(MAX_ARRAY_LENGTH + 1)}

HeapOf(S, thrower, items) ==
    <<[kind |-> "object", props |-> PropsOf(S, thrower)],
      [kind |-> "array", items |-> items]>>

Heaps == {HeapOf(S, thrower, items) :
            S \in SUBSET KeySet, thrower \in Throwers, items \in ItemSeqs}

\* Strings up to four characters over the cap.
RECURSIVE StringsUpTo(_)
StringsUpTo(n) ==
    IF n = 0 THEN {""}
    ELSE LET shorter == StringsUpTo(n - 1)
         IN shorter \cup {s \o c : s \in shorter, c \in {"a", "."}}

EmptyHeap == HeapOf({}, NULL, <<>>)

Depths == 0..MAX_OBJECT_DEPTH

Calls ==
    {[phase |-> "called", heap |-> h, value |-> v, depth |-> d] :
        h \in Heaps, v \in {Ref(1), Ref(2)}, d \in Depths}
    \cup
    {[phase |-> "called", heap |-> EmptyHeap, value |-> v, depth |-> d] :
        v \in {Str(s) : s \in StringsUpTo(MAX_STRING_LENGTH + 4)}
              \cup {Null, Undefined, Num(0), Fn("f")},
        d \in Depths}

recorder == <<session, now, pending, bodyReads, returned, aliased, ret,
              nextUid, appended>>

SanInit ==
    /\ RecorderInit
    /\ call \in Calls
    /\ page = NoPage

\* sanitizeValue(value, depth) is applied to the argument.
Sanitize ==
    /\ call.phase = "called"
    /\ call' = [phase |-> "returned", heap |-> call.heap, value |-> call.value,
               depth |-> call.depth,
               out |-> sanitizeValue(call.heap, call.value, call.depth, MAX_STRING_LENGTH)]
    /\ UNCHANGED <<recorder, page>>

\* The string a first call returned is sanitized again.
Resanitize ==
    /\ call.phase = "returned"
    /\ call.value.t = "string"
    /\ call' = [phase |-> "again", heap |-> call.heap, value |-> call.value,
               depth |-> call.depth, out |-> call.out,
               out2 |-> sanitizeValue(call.heap, call.out, call.depth, MAX_STRING_LENGTH)]
    /\ UNCHANGED <<recorder, page>>

SanNext ==
    \/ Sanitize
    \/ Resanitize

SanSpec == SanInit /\ [][SanNext]_vars

\* ------------------------------------------------------ sanitizer claims
RECURSIVE Nesting(_)
\* how many arrays and objects deep a result goes
Nesting(v) ==
    LET Deepest(S) == IF S = {} THEN 0 ELSE CHOOSE n \in S : \A m \in S : m <= n IN
    IF v.t = "array"
    THEN 1 + Deepest({Nesting(v.items[i]) : i \in DOMAIN v.items})
    ELSE IF v.t = "object"
    THEN 1 + Deepest({Nesting(v.props[i].val) : i \in DOMAIN v.props})
    ELSE 0

RECURSIVE JsonSafe(_)
\* primitives, and new arrays and objects of such: no function, no reference
\* to an object of the page
JsonSafe(v) ==
    IF v.t = "array" THEN \A i \in DOMAIN v.items : JsonSafe(v.items[i])
    ELSE IF v.t = "object" THEN \A i \in DOMAIN v.props : JsonSafe(v.props[i].val)
    ELSE v.t \in {"null", "undefined", "string", "number", "boolean"}

OnlySelf == <<[key |-> "self", val |-> Ref(1), throws |-> FALSE]>>

\* C12: for the object whose only key self is the object itself,
\* sanitize(a, 3) is {self: {self: {self: "[max depth]"}}}.
C12_SelfExample ==
    (/\ call.phase = "returned"
     /\ call.value = Ref(1)
     /\ call.heap[1].props = OnlySelf
     /\ call.depth = 3) =>
        call.out = Obj(<<[key |-> "self", val |->
                    Obj(<<[key |-> "self", val |->
                        Obj(<<[key |-> "self", val |-> Str("[max depth]")]>>)]>>)]>>)

\* the object 1 itself was sanitized into an object
ObjectCall ==
    /\ call.phase = "returned"
    /\ call.value = Ref(1)
    /\ call.out.t = "object"

InKeys == [i \in DOMAIN call.heap[1].props |-> call.heap[1].props[i].key]

OutKeys == [i \in DOMAIN call.out.props |-> call.out.props[i].key]

\* the keys of the output other than the counter key
DataKeys == SelectSeq(OutKeys, LAMBDA k : k # "...")

HasCounter == \E i \in DOMAIN OutKeys : OutKeys[i] = "..."

Counter == call.out.props[CHOOSE i \in DOMAIN OutKeys : OutKeys[i] = "..."].val

NoDotsKey == \A i \in DOMAIN InKeys : InKeys[i] # "..."

MoreKeys(n) == Str("(" \o ToString(n) \o " more keys)")

Reserved(key) == startsWith(key, "__") \/ startsWith(key, "$$")

\* C13 as stated: the sanitized object has at most MAX_OBJECT_KEYS data keys
\* and at most one "..." key; the "..." key is there exactly when the object
\* has K > MAX_OBJECT_KEYS keys, and its value is the number K - MAX_OBJECT_KEYS.
C13_KeyCapCount ==
    ObjectCall =>
        LET K == Len(InKeys) IN
        /\ Len(DataKeys) <= MAX_OBJECT_KEYS
        /\ Len(OutKeys) - Len(DataKeys) <= 1
        /\ HasCounter <=> K > MAX_OBJECT_KEYS
        /\ K > MAX_OBJECT_KEYS => Counter = Num(K - MAX_OBJECT_KEYS)

\* C13 amended: for an object with K keys, none of them named "...", the
\* sanitized object has at most MAX_OBJECT_KEYS data keys and at most one
\* "..." key; the "..." key is there exactly when K > MAX_OBJECT_KEYS, and
\* its value is the string "(N more keys)" with N = K - MAX_OBJECT_KEYS.
C13_KeyCapNote ==
    (ObjectCall /\ NoDotsKey) =>
        LET K == Len(InKeys) IN
        /\ Len(DataKeys) <= MAX_OBJECT_KEYS
        /\ Len(OutKeys) - Len(DataKeys) <= 1
        /\ HasCounter <=> K > MAX_OBJECT_KEYS
        /\ K > MAX_OBJECT_KEYS => Counter = MoreKeys(K - MAX_OBJECT_KEYS)

\* C13 witness: an object with more than MAX_OBJECT_KEYS keys, none named
\* "...", was sanitized: the result carries the counter.
C13_Witness ==
    /\ ObjectCall
    /\ NoDotsKey
    /\ Len(InKeys) > MAX_OBJECT_KEYS
    /\ HasCounter
    /\ Len(DataKeys) = MAX_OBJECT_KEYS

\* C14: the reserved keys are dropped before the cap is applied: the data
\* keys of the output are the first MAX_OBJECT_KEYS keys that survive the
\* filter, in order, and the counter is there only when more than
\* MAX_OBJECT_KEYS keys survive, counting the surviving keys left out.
C14_FilterBeforeCap ==
    (ObjectCall /\ NoDotsKey) =>
        LET surviving == SelectSeq(InKeys, LAMBDA k : ~Reserved(k))
            n == Len(surviving)
        IN /\ DataKeys = SubSeq(surviving, 1, IF n > MAX_OBJECT_KEYS
                                               THEN MAX_OBJECT_KEYS ELSE n)
           /\ HasCounter => (/\ n > MAX_OBJECT_KEYS
                             /\ Counter = MoreKeys(n - MAX_OBJECT_KEYS))

RECURSIVE KeysIn(_)
\* the keys of a result and of everything nested in it
KeysIn(v) ==
    IF v.t = "array" THEN UNION {KeysIn(v.items[i]) : i \in DOMAIN v.items}
    ELSE IF v.t = "object"
    THEN {v.props[i].key : i \in DOMAIN v.props}
         \cup UNION {KeysIn(v.props[i].val) : i \in DOMAIN v.props}
    ELSE {}

\* C15: no key that starts with "__" or "$$" is in the sanitized output, at
\* any depth, in objects nested in objects or in arrays.
C15_ReservedKeysAbsent ==
    call.phase = "returned" => \A k \in KeysIn(call.out) : ~Reserved(k)

\* C15 witness: an array holding an object was sanitized; the object has a
\* reserved key, the key self and another reserved key, and the object in the
\* output array is not empty.
C15_Witness ==
    /\ call.phase = "returned"
    /\ call.value = Ref(2)
    /\ call.heap[2].items = <<Ref(1)>>
    /\ Len(InKeys) = 3
    /\ Reserved(InKeys[1])
    /\ InKeys[2] = "self"
    /\ Reserved(InKeys[3])
    /\ call.out.t = "array"
    /\ call.out.items[1].t = "object"
    /\ KeysIn(call.out) # {}

\* the property of object 1 whose read throws, if any
ThrowingKeys == {call.heap[1].props[i].key :
                    i \in {j \in DOMAIN call.heap[1].props : call.heap[1].props[j].throws}}

\* the same heap with no read throwing
Calm(h) ==
    <<[kind |-> "object",
       props |-> [i \in DOMAIN h[1].props |-> [h[1].props[i] EXCEPT !.throws = FALSE]]],
      h[2]>>

RECURSIVE SameButThrown(_, _)
\* result o is result r, but for the placeholder at the keys whose read threw
SameButThrown(o, r) ==
    IF o.t = "array"
    THEN /\ r.t = "array"
         /\ Len(o.items) = Len(r.items)
         /\ \A i \in DOMAIN o.items : SameButThrown(o.items[i], r.items[i])
    ELSE IF o.t = "object"
    THEN /\ r.t = "object"
         /\ Len(o.props) = Len(r.props)
         /\ \A i \in DOMAIN o.props :
              /\ o.props[i].key = r.props[i].key
              /\ IF o.props[i].key \in ThrowingKeys
                 THEN o.props[i].val = Str("[Error reading property]")
                 ELSE SameButThrown(o.props[i].val, r.props[i].val)
    ELSE o = r

\* C16: when the read of one key throws, the call still returns, that key
\* maps to "[Error reading property]", and every other key is sanitized as it
\* is when the read does not throw.
C16_ThrowingKey ==
    /\ call.phase = "called" => ENABLED Sanitize
    /\ call.phase = "returned" =>
        SameButThrown(call.out,
                      sanitizeValue(Calm(call.heap), call.value, call.depth,
                                    MAX_STRING_LENGTH))

\* C16 witness: the object was sanitized, the read of its first key threw, and
\* the keys after it are in the result with their values.
C16_Witness ==
    /\ ObjectCall
    /\ Len(OutKeys) = 2
    /\ OutKeys[1] \in ThrowingKeys
    /\ call.out.props[1].val = Str("[Error reading property]")
    /\ call.out.props[2].val # Str("[Error reading property]")

\* C17: sanitizing the result of sanitizing a string gives that result again.
C17_StringIdempotent ==
    call.phase = "again" => call.out2 = call.out

\* C17 witness: a string over the cap was truncated and sanitized again.
C17_Witness ==
    /\ call.phase = "again"
    /\ Len(call.value.v) > MAX_STRING_LENGTH
    /\ call.out # call.value
    /\ Len(call.out.v) = MAX_STRING_LENGTH + 3

\* -------------------------------------------------------- the injectors
\* A page context before any injector has run, and what the four injectors
\* (session-recorder.js, interaction-recorder.js, console and network capture)
\* leave in it.  layers[tap] counts how often the tap's wrappers and listeners
\* were installed; the five logs are held by their lengths, which stay below
\* the caps in these runs.
MaxInjections == 2
MaxPageEvents == 3

Taps == {"session", "console", "network", "interactions"}

FreshPage ==
    [phase |-> "loaded",
     sentinel |-> [tap \in Taps |-> FALSE],
     layers |-> [tap \in Taps |-> 0],
     evaluated |-> [tap \in Taps |-> 0],
     isRecording |-> FALSE,
     sessionConsole |-> 0, sessionNetwork |-> 0, sessionInteractions |-> 0,
     consoleLog |-> 0, networkLog |-> 0, warnings |-> 0,
     events |-> 0, last |-> "load"]

\* an injector that installs whatever the sentinel says
InjectTapAgain(p, tap) ==
    LET p2 == [p EXCEPT !.evaluated[tap] = @ + 1, !.sentinel[tap] = TRUE] IN
    CASE tap = "session" ->
            [p2 EXCEPT !.layers[tap] = @ + 1, !.isRecording = FALSE,
                       !.sessionConsole = 0, !.sessionNetwork = 0,
                       !.sessionInteractions = 0]
      [] tap = "console" -> [p2 EXCEPT !.layers[tap] = @ + 1, !.consoleLog = 0]
      [] tap = "network" -> [p2 EXCEPT !.layers[tap] = @ + 1, !.networkLog = 0]
      [] OTHER ->
            IF p.layers["session"] = 0 THEN [p2 EXCEPT !.warnings = @ + 1]
            ELSE [p2 EXCEPT !.layers[tap] = @ + 1]

\* an interaction recorder that does not test for the append function
InjectTapUnchecked(p, tap) ==
    LET p1 == [p EXCEPT !.evaluated[tap] = @ + 1] IN
    IF p.sentinel[tap] THEN p1
    ELSE LET p2 == [p1 EXCEPT !.sentinel[tap] = TRUE] IN
         CASE tap = "session" ->
                [p2 EXCEPT !.layers[tap] = @ + 1, !.isRecording = FALSE,
                           !.sessionConsole = 0, !.sessionNetwork = 0,
                           !.sessionInteractions = 0]
           [] tap = "console" -> [p2 EXCEPT !.layers[tap] = @ + 1, !.consoleLog = 0]
           [] tap = "network" -> [p2 EXCEPT !.layers[tap] = @ + 1, !.networkLog = 0]
           [] OTHER -> [p2 EXCEPT !.layers[tap] = @ + 1]

\* The injected (function() {...})() of one tap: return if the sentinel is
\* set; else set it, create the tap's storage and install its wrappers and
\* listeners.  The interaction recorder calls console.warn and installs
\* nothing when __AI_CONTEXT_ADD_INTERACTION__ is missing.
InjectTap(p, tap) ==
    LET p1 == [p EXCEPT !.evaluated[tap] = @ + 1] IN
    IF p.sentinel[tap] THEN p1
    ELSE LET p2 == [p1 EXCEPT !.sentinel[tap] = TRUE] IN
         CASE tap = "session" ->
                [p2 EXCEPT !.layers[tap] = @ + 1, !.isRecording = FALSE,
                           !.sessionConsole = 0, !.sessionNetwork = 0,
                           !.sessionInteractions = 0]
           [] tap = "console" -> [p2 EXCEPT !.layers[tap] = @ + 1, !.consoleLog = 0]
           [] tap = "network" -> [p2 EXCEPT !.layers[tap] = @ + 1, !.networkLog = 0]
           [] OTHER ->
                IF p.layers["session"] = 0 THEN [p2 EXCEPT !.warnings = @ + 1]
                ELSE [p2 EXCEPT !.layers[tap] = @ + 1]

InjInit ==
    /\ RecorderInit
    /\ call = NoCall
    /\ page = FreshPage

PageStep(p, name) ==
    /\ page' = [p EXCEPT !.last = name]
    /\ UNCHANGED <<recorder, call>>

PageEvent(p, name) ==
    /\ page.events < MaxPageEvents
    /\ PageStep([p EXCEPT !.events = @ + 1], name)

\* inspector panel: the session recorder is injected, then the interaction
\* recorder
injectRecordingScripts ==
    /\ page.evaluated["session"] < MaxInjections
    /\ PageStep(InjectTap(InjectTap(page, "session"), "interactions"), "recording")

\* content script: the console and network capture code is injected
injectCaptureScripts ==
    /\ page.evaluated["console"] < MaxInjections
    /\ PageStep(InjectTap(InjectTap(page, "console"), "network"), "capture")

\* __AI_CONTEXT_START_SESSION__(): new arrays, then console.info through
\* every installed layer of the session console wrapper
PageStart ==
    /\ page.layers["session"] > 0
    /\ PageEvent([page EXCEPT !.isRecording = TRUE,
                              !.sessionConsole = page.layers["session"],
                              !.sessionNetwork = 0,
                              !.sessionInteractions = 0], "start")

\* __AI_CONTEXT_STOP_SESSION__()
PageStop ==
    /\ page.layers["session"] > 0
    /\ page.isRecording
    /\ PageStep([page EXCEPT !.isRecording = FALSE], "stop")

\* The page calls console.error once: each installed layer records it.
PageConsoleError ==
    /\ page.phase = "loaded"
    /\ PageEvent([page EXCEPT
                 !.sessionConsole = @ + (IF page.isRecording THEN page.layers["session"] ELSE 0),
                 !.consoleLog = @ + page.layers["console"]], "console")

\* The page makes one request with fetch and it completes.
PageRequest ==
    /\ page.phase = "loaded"
    /\ PageEvent([page EXCEPT
                 !.sessionNetwork = @ + (IF page.isRecording THEN page.layers["session"] ELSE 0),
                 !.networkLog = @ + page.layers["network"]], "request")

\* The user clicks once: each installed click listener hands an interaction
\* to __AI_CONTEXT_ADD_INTERACTION__.
PageClick ==
    /\ page.phase = "loaded"
    /\ PageEvent([page EXCEPT
                 !.sessionInteractions =
                    @ + (IF page.isRecording THEN page.layers["interactions"] ELSE 0)],
              "click")

InjNext ==
    \/ injectRecordingScripts
    \/ injectCaptureScripts
    \/ PageStart
    \/ PageStop
    \/ PageConsoleError
    \/ PageRequest
    \/ PageClick

InjSpec == InjInit /\ [][InjNext]_vars

\* the session state and the five logs
PageData ==
    <<page.isRecording, page.sessionConsole, page.sessionNetwork,
      page.sessionInteractions, page.consoleLog, page.networkLog>>

ArgKinds == {"string", "null", "Error", "object", "circular", "hostile"}

MaxArgs == 2

ArgLists == UNION {[1..n -> ArgKinds] : n \in 0..MaxArgs}

\* fetch(input, init): a URL string, a Request, a URL object, null
InputKinds == {"string", "Request", "URL", "null"}

\* init: none, { method: 'post' }, { method: 5 }
InitKinds == {"none", "method", "method5"}

\* send(body): none, a string, a FormData
BodyKinds == {"none", "string", "FormData"}

\* the receiver of the call: the object the method was read from, or another
Receivers == {"owner", "other"}

NoOutcome == [kind |-> "none", val |-> "none"]

Thrown(e) == [kind |-> "throw", val |-> e]

Rejected(e) == [kind |-> "reject", val |-> e]

\* what the original does when it is invoked
OriginalOutcome(c) == [kind |-> c.original, val |-> "original"]

\* originalX.apply(receiver, args)
Apply(c, receiver, args) ==
    [c EXCEPT !.invoked = Append(@, [this |-> receiver, args |-> args])]

WrapCall(w, r, t, a, o) ==
    [phase |-> "wrapped", wrapper |-> w, recording |-> r, this |-> t,
     args |-> a, original |-> o, invoked |-> <<>>, outcome |-> NoOutcome]

WrapCalls ==
    {WrapCall("console", r, t, a, o) :
        r \in BOOLEAN, t \in Receivers, a \in ArgLists,
        o \in {"return", "throw"}}
    \cup {WrapCall("fetch", r, t, <<i, n>>, o) :
        r \in BOOLEAN, t \in Receivers, i \in InputKinds, n \in InitKinds,
        o \in {"resolve", "reject"}}
    \cup {WrapCall("open", r, t, <<"GET", "/url">>, o) :
        r \in BOOLEAN, t \in Receivers, o \in {"return", "throw"}}
    \cup {WrapCall("send", r, t, <<b>>, o) :
        r \in BOOLEAN, t \in Receivers, b \in BodyKinds,
        o \in {"return", "throw"}}

\* formatArgs(args): the joined message, or the exception String(arg) throws
\* from the catch block
formatArgs(args) ==
    IF \E i \in DOMAIN args : args[i] = "hostile"
    THEN Thrown("TypeError")
    ELSE [kind |-> "return", val |-> "message"]

\* console[type] = function() { captureConsole(type, arguments);
\*   return originalConsole[type].apply(console, arguments); }
\* captureConsole returns at once when not recording and calls formatArgs
\* outside any try block otherwise.
ConsoleWrapperFn(c) ==
    IF c.recording /\ formatArgs(c.args).kind = "throw"
    THEN [c EXCEPT !.phase = "done", !.outcome = formatArgs(c.args)]
    ELSE [Apply(c, "owner", c.args) EXCEPT !.phase = "done",
                                           !.outcome = OriginalOutcome(c)]

\* window.fetch = function(input, init): when recording, the url is read
\* from the input before the original is applied
FetchWrapperFn(c) ==
    IF ~c.recording
    THEN [Apply(c, c.this, c.args) EXCEPT !.phase = "pending"]
    ELSE IF c.args[1] = "null"
         THEN [c EXCEPT !.phase = "done", !.outcome = Thrown("TypeError")]
         ELSE [Apply(c, c.this, c.args) EXCEPT !.phase = "pending"]

\* the promise the caller holds settles: the original's promise itself when
\* not recording, the .then(...).catch(...) chain otherwise; both handlers
\* call method.toUpperCase()
FetchSettledFn(c) ==
    IF ~c.recording
    THEN [c EXCEPT !.phase = "done", !.outcome = OriginalOutcome(c)]
    ELSE IF c.args[2] = "method5"
         THEN [c EXCEPT !.phase = "done", !.outcome = Rejected("TypeError")]
         ELSE [c EXCEPT !.phase = "done", !.outcome = OriginalOutcome(c)]

\* XMLHttpRequest.prototype.open = function(method, url)
XhrOpenWrapperFn(c) ==
    [Apply(c, c.this, c.args) EXCEPT !.phase = "done",
                                     !.outcome = OriginalOutcome(c)]

\* XMLHttpRequest.prototype.send = function(body): the body is read inside
\* try/catch and a loadend listener is added before the original is applied
XhrSendWrapperFn(c) ==
    [Apply(c, c.this, c.args) EXCEPT !.phase = "done",
                                     !.outcome = OriginalOutcome(c)]

WrapInit ==
    /\ RecorderInit
    /\ call \in WrapCalls
    /\ page = NoPage

ConsoleWrapper ==
    /\ call.phase = "wrapped"
    /\ call.wrapper = "console"
    /\ call' = ConsoleWrapperFn(call)
    /\ UNCHANGED <<recorder, page>>

FetchWrapper ==
    /\ call.phase = "wrapped"
    /\ call.wrapper = "fetch"
    /\ call' = FetchWrapperFn(call)
    /\ UNCHANGED <<recorder, page>>

FetchSettled ==
    /\ call.phase = "pending"
    /\ call' = FetchSettledFn(call)
    /\ UNCHANGED <<recorder, page>>

XhrOpenWrapper ==
    /\ call.phase = "wrapped"
    /\ call.wrapper = "open"
    /\ call' = XhrOpenWrapperFn(call)
    /\ UNCHANGED <<recorder, page>>

XhrSendWrapper ==
    /\ call.phase = "wrapped"
    /\ call.wrapper = "send"
    /\ call' = XhrSendWrapperFn(call)
    /\ UNCHANGED <<recorder, page>>

WrapNext ==
    \/ ConsoleWrapper
    \/ FetchWrapper
    \/ FetchSettled
    \/ XhrOpenWrapper
    \/ XhrSendWrapper

WrapSpec == WrapInit /\ [][WrapNext]_vars

\* C19: a call of a wrapped console method, of window.fetch or of
\* XMLHttpRequest open/send reaches the original exactly once with the
\* caller's receiver and arguments, and the caller gets what the original
\* produced (its return value or exception, its resolved response or its
\* rejection), whether or not a session is recording and whatever the
\* arguments are.
C19_WrapperTransparent ==
    /\ call.phase \in {"pending", "done"} =>
          call.invoked = <<[this |-> call.this, args |-> call.args]>>
    /\ call.phase = "done" => call.outcome = OriginalOutcome(call)

\* ------------------------------------------------- interaction recording
\* interaction-recorder.js listens for input, change and submit events and
\* hands entries to window.__AI_CONTEXT_ADD_INTERACTION__; the Safari content
\* script has its own captureInteraction.  A form of two fields is followed:
\* the field the user works on and a neutral neighbour.

MaxFormEvents == 3

FieldNames == {"", "email", "cvv", "PIN", "comment"}

FieldIds == {"", "card-number", "q"}

\* tagName and type of a form control
FieldKinds == {<<"INPUT", "text">>, <<"INPUT", "password">>,
               <<"INPUT", "checkbox">>, <<"SELECT", "select-one">>,
               <<"TEXTAREA", "textarea">>}

\* 101 characters: longer than both truncation limits
LongValue ==
    "0123456789012345678901234567890123456789012345678901234567890123456789012345678901234567890123456789X"

FieldValues == {"", "a@b.com", LongValue}

Fields ==
    {[name |-> n, id |-> i, tagName |-> k[1], type |-> k[2], value |-> v,
      checked |-> TRUE, text |-> "option"] :
        n \in FieldNames, i \in FieldIds, k \in FieldKinds, v \in FieldValues}

Neighbour ==
    [name |-> "notes", id |-> "", tagName |-> "INPUT", type |-> "text",
     value |-> "hello", checked |-> TRUE, text |-> "option"]

\* String.prototype.toLowerCase over the letters the field names use
LowerChar(ch) ==
    CASE ch = "P" -> "p"
      [] ch = "I" -> "i"
      [] ch = "N" -> "n"
      [] OTHER -> ch

RECURSIVE toLowerCase(_)
toLowerCase(str) ==
    IF str = "" THEN ""
    ELSE LowerChar(SubSeq(str, 1, 1)) \o toLowerCase(SubSeq(str, 2, Len(str)))

\* str contains word
Contains(str, word) ==
    \E i \in 1..(Len(str) - Len(word) + 1) :
        SubSeq(str, i, i + Len(word) - 1) = word

\* /email|phone|ssn|credit|card|cvv|pin/i
InputPattern == {"email", "phone", "ssn", "credit", "card", "cvv", "pin"}

\* /email|phone|ssn|credit|card/i
SubmitPattern == {"email", "phone", "ssn", "credit", "card"}

\* pattern.test(str)
test(pattern, str) == \E word \in pattern : Contains(toLowerCase(str), word)

\* an InteractionEntry; field 0 stands for the form itself
Interaction(type, field, carries, value, formData) ==
    [type |-> type, field |-> field, carries |-> carries, value |-> value,
     formData |-> formData]

\* the input listener's timer callback: truncate, then mask
inputValue(target) ==
    LET value == IF Len(target.value) > 100
                 THEN SubSeq(target.value, 1, 97) \o "..."
                 ELSE target.value
        isSensitive == \/ test(InputPattern, target.name)
                       \/ test(InputPattern, target.id)
    IN IF isSensitive /\ value # "" THEN "[masked]" ELSE value

\* the change listener's value; "" stands for the early return
changeValue(target) ==
    IF target.type \in {"checkbox", "radio"}
    THEN IF target.checked THEN "checked" ELSE "unchecked"
    ELSE IF target.tagName = "SELECT" THEN target.text
    ELSE ""

\* the submit listener's value for one control
submitValue(input) ==
    LET value == IF input.value # "" /\ Len(input.value) > 50
                 THEN SubSeq(input.value, 1, 47) \o "..."
                 ELSE input.value
    IN IF test(SubmitPattern, input.name) /\ value # ""
       THEN "[masked]" ELSE value

\* the submit listener's formData: one pair per control that has a name and
\* is not a password field (the names of the two controls differ)
RECURSIVE formData(_, _)
formData(form, i) ==
    IF i > Len(form) THEN <<>>
    ELSE IF form[i].name # "" /\ form[i].type # "password"
         THEN <<[field |-> i, value |-> submitValue(form[i])]>>
              \o formData(form, i + 1)
         ELSE formData(form, i + 1)

\* Safari captureInteraction: the value of an input event, cut at 50
safariValue(target) ==
    SubSeq(target.value, 1, IF Len(target.value) > 50 THEN 50
                            ELSE Len(target.value))
    \o (IF Len(target.value) > 50 THEN "..." ELSE "")

\* window.__AI_CONTEXT_ADD_INTERACTION__(interaction)
addInteraction(p, interaction) ==
    IF ~p.isRecording THEN p
    ELSE [p EXCEPT !.interactions =
            PushShift(@, interaction, MAX_INTERACTIONS)]

\* Safari captureInteraction(type, event)
captureInteraction(p, type) ==
    IF ~p.isRecording THEN p
    ELSE [p EXCEPT !.safari =
            PushShift(@, IF type = "input"
                         THEN Interaction(type, 1, TRUE,
                                          safariValue(p.form[1]), <<>>)
                         ELSE Interaction(type, 1, FALSE, "", <<>>),
                      MAX_INTERACTIONS)]

FormInit ==
    /\ RecorderInit
    /\ call = NoCall
    /\ \E target \in Fields, r \in BOOLEAN :
          page = [phase |-> "form", form |-> <<target, Neighbour>>,
                  isRecording |-> r, timer |-> FALSE, interactions |-> <<>>,
                  safari |-> <<>>, events |-> 0]

FormEvent(p) ==
    /\ page.phase = "form"
    /\ page.events < MaxFormEvents
    /\ page' = [p EXCEPT !.events = @ + 1]
    /\ UNCHANGED <<recorder, call>>

\* 'input' event: password fields are skipped, other fields (re)start the
\* 300 ms timer of their selector
InputEvent ==
    /\ page.phase = "form"
    /\ FormEvent(IF page.form[1].type = "password" THEN page
                 ELSE [page EXCEPT !.timer = TRUE])

\* the debounce timer fires
InputTimer ==
    /\ page.phase = "form"
    /\ page.timer
    /\ page' = [addInteraction(page,
                    Interaction("input", 1, TRUE, inputValue(page.form[1]),
                                <<>>))
                EXCEPT !.timer = FALSE]
    /\ UNCHANGED <<recorder, call>>

\* 'change' event
ChangeEvent ==
    /\ page.phase = "form"
    /\ FormEvent(IF changeValue(page.form[1]) = "" THEN page
                 ELSE addInteraction(page,
                        Interaction("change", 1, FALSE,
                                    changeValue(page.form[1]), <<>>)))

\* 'submit' event on the form
SubmitEvent ==
    /\ page.phase = "form"
    /\ FormEvent(addInteraction(page,
                    Interaction("submit", 0, FALSE, "",
                                formData(page.form, 1))))

\* Safari: click, input and submit listeners
SafariEvent ==
    \E type \in {"click", "input", "submit"} :
        /\ page.phase = "form"
        /\ FormEvent(captureInteraction(page, type))

FormNext ==
    \/ InputEvent
    \/ InputTimer
    \/ ChangeEvent
    \/ SubmitEvent
    \/ SafariEvent

FormSpec == FormInit /\ [][FormNext]_vars

\* the field's name or id matches the sensitive-keyword pattern
Sensitive(field) ==
    test(InputPattern, field.name) \/ test(InputPattern, field.id)

\* the values an entry holds, each with the field it was read from
ValuesHeld(entry) ==
    (IF entry.carries
     THEN {[field |-> entry.field, value |-> entry.value]} ELSE {})
    \cup {entry.formData[i] : i \in DOMAIN entry.formData}

EntriesHeld ==
    {page.interactions[i] : i \in DOMAIN page.interactions}
    \cup {page.safari[i] : i \in DOMAIN page.safari}

\* C20: in every session buffer, an entry that carries the (non-empty) value
\* of a field whose name or id matches email/phone/ssn/credit/card/cvv/pin
\* holds "[masked]" in its place, in the value of an input entry and in the
\* formData of a submit entry alike; the raw value is in no buffer.
C20_SensitiveMasked ==
    page.phase = "form" =>
        \A entry \in EntriesHeld : \A held \in ValuesHeld(entry) :
            (Sensitive(page.form[held.field]) /\
             page.form[held.field].value # "")
                => held.value = "[masked]"

\* C21: a password-typed input is never captured: no buffer holds an input
\* entry for an event on it, and no entry (input value or submit formData)
\* holds a value read from it.
C21_PasswordNotCaptured ==
    page.phase = "form" =>
        \A entry \in EntriesHeld :
            /\ (entry.type = "input" /\ entry.field # 0)
                  => page.form[entry.field].type # "password"
            /\ \A held \in ValuesHeld(entry) :
                  page.form[held.field].type # "password"

\* ------------------------------------------------------- input debounce
\* The input listener keeps one timer handle per selector in inputDebounce:
\* each input event clears the selector's timer and sets a new one, and the
\* timer's callback appends the entry.  The clock counts units of 100 ms.  A
\* timer that is due runs before the clock moves on and before a later
\* event is handled.  The targets are text inputs of a recording page.

MaxClock == 7

MaxInputs == 3

\* setTimeout(..., 300)
QuietPeriod == 3

Selectors == {"#a", "#b"}

TypingPage ==
    [phase |-> "typing", isRecording |-> TRUE, now |-> 1, timers |-> {},
     inputDebounce |-> [sel \in Selectors |-> 0],
     lastInput |-> [sel \in Selectors |-> 0],
     inputs |-> [sel \in Selectors |-> 0],
     bursts |-> [sel \in Selectors |-> 0],
     recorded |-> [sel \in Selectors |-> 0],
     quiet |-> [sel \in Selectors |-> 0],
     interactions |-> <<>>]

\* an input event whose gap to the previous one on the selector is not
\* shorter than the quiet period begins a new burst
NewBurst(p, sel) ==
    p.lastInput[sel] = 0 \/ p.now - p.lastInput[sel] >= QuietPeriod

\* history of the input events: latest time, number, number of bursts
NoteInput(p, sel) ==
    [p EXCEPT !.lastInput[sel] = p.now,
              !.inputs[sel] = @ + 1,
              !.bursts[sel] = IF NewBurst(p, sel) THEN @ + 1 ELSE @]

\* the listener with clearTimeout left out
onInputNoClear(p, sel) ==
    [NoteInput(p, sel) EXCEPT
        !.timers = @ \cup {[selector |-> sel, due |-> p.now + QuietPeriod]},
        !.inputDebounce[sel] = p.now + QuietPeriod]

\* clearTimeout(inputDebounce[selector]);
\* inputDebounce[selector] = setTimeout(function() {...}, 300);
onInput(p, sel) ==
    [NoteInput(p, sel) EXCEPT
        !.timers = (@ \ {[selector |-> sel, due |-> p.inputDebounce[sel]]})
                   \cup {[selector |-> sel, due |-> p.now + QuietPeriod]},
        !.inputDebounce[sel] = p.now + QuietPeriod]

\* the timer's callback: addInteraction(formatInteraction('input', ...))
onInputTimer(p, timer) ==
    [addInteraction(p, [type |-> "input", target |-> timer.selector,
                        timestamp |-> p.now])
     EXCEPT !.timers = @ \ {timer},
            !.recorded[timer.selector] = @ + 1,
            !.quiet[timer.selector] = p.now - p.lastInput[timer.selector]]

\* some timer is due
TimerDue(p) == \E timer \in p.timers : timer.due <= p.now

TypingInit ==
    /\ RecorderInit
    /\ call = NoCall
    /\ page = TypingPage

TypeInput ==
    \E sel \in Selectors :
        /\ page.phase = "typing"
        /\ ~TimerDue(page)
        /\ page.inputs[sel] < MaxInputs
        /\ page' = onInput(page, sel)
        /\ UNCHANGED <<recorder, call>>

InputTimerFires ==
    \E timer \in page.timers :
        /\ page.phase = "typing"
        /\ timer.due <= page.now
        /\ page' = onInputTimer(page, timer)
        /\ UNCHANGED <<recorder, call>>

ClockAdvance ==
    /\ page.phase = "typing"
    /\ ~TimerDue(page)
    /\ page.now < MaxClock
    /\ page' = [page EXCEPT !.now = @ + 1]
    /\ UNCHANGED <<recorder, call>>

TypingNext ==
    \/ TypeInput
    \/ InputTimerFires
    \/ ClockAdvance

TypingSpec == TypingInit /\ [][TypingNext]_vars

TimersOf(sel) == {timer \in page.timers : timer.selector = sel}

MaxScrollClock == 10

\* now - lastScrollTime < 1000
ThrottlePeriod == 4

\* setTimeout(function() { recordScroll(); }, 1000)
ScrollTimerDelay == 4

\* now - lastScroll > 500
SafariScrollPeriod == 2

\* Date.now() is far from 0, the initial lastScrollTime
ScrollPage ==
    [phase |-> "scrolling", isRecording |-> TRUE, now |-> ThrottlePeriod,
     lastScrollTime |-> 0, scrollTimeout |-> 0, timers |-> {},
     lastScroll |-> 0, interactions |-> <<>>, safari |-> <<>>]

\* recordScroll()
recordScroll(p) ==
    [addInteraction(p, [type |-> "scroll", timestamp |-> p.now])
     EXCEPT !.lastScrollTime = p.now]

\* window 'scroll' listener of the interaction recorder
onScroll(p) ==
    IF p.now - p.lastScrollTime < ThrottlePeriod
    THEN [p EXCEPT !.timers = (@ \ {p.scrollTimeout})
                              \cup {p.now + ScrollTimerDelay},
                   !.scrollTimeout = p.now + ScrollTimerDelay]
    ELSE recordScroll(p)

\* Safari 'scroll' listener: captureInteraction('scroll', e) pushes when
\* recording
onSafariScroll(p) ==
    IF p.now - p.lastScroll > SafariScrollPeriod
    THEN [p EXCEPT !.safari =
                      IF p.isRecording
                      THEN PushShift(@, [type |-> "scroll",
                                         timestamp |-> p.now],
                                     MAX_INTERACTIONS)
                      ELSE @,
                   !.lastScroll = p.now]
    ELSE p

ScrollInit ==
    /\ RecorderInit
    /\ call = NoCall
    /\ page = ScrollPage

ScrollEvent ==
    /\ page.phase = "scrolling"
    /\ \A due \in page.timers : due > page.now
    /\ page' = onScroll(page)
    /\ UNCHANGED <<recorder, call>>

ScrollTimerFires ==
    \E due \in page.timers :
        /\ page.phase = "scrolling"
        /\ due <= page.now
        /\ page' = [recordScroll(page) EXCEPT !.timers = @ \ {due}]
        /\ UNCHANGED <<recorder, call>>

SafariScrollEvent ==
    /\ page.phase = "scrolling"
    /\ page' = onSafariScroll(page)
    /\ UNCHANGED <<recorder, call>>

ScrollClockAdvance ==
    /\ page.phase = "scrolling"
    /\ \A due \in page.timers : due > page.now
    /\ page.now < MaxScrollClock
    /\ page' = [page EXCEPT !.now = @ + 1]
    /\ UNCHANGED <<recorder, call>>

ScrollNext ==
    \/ ScrollEvent
    \/ ScrollTimerFires
    \/ SafariScrollEvent
    \/ ScrollClockAdvance

ScrollSpec == ScrollInit /\ [][ScrollNext]_vars

\* the entries of a buffer are at least a second apart
Throttled(buffer) ==
    \A i, j \in DOMAIN buffer :
        i < j => buffer[j].timestamp - buffer[i].timestamp >= ThrottlePeriod

\* C23: scroll capture is throttled to once per second: whatever the timing
\* of the scroll events, two scroll interactions of a session are at least
\* 1000 ms apart.
C23_ScrollThrottled ==
    page.phase = "scrolling" =>
        Throttled(page.interactions) /\ Throttled(page.safari)

\* ------------------------------------------------------ navigation capture
\* history.pushState and history.replaceState are wrapped, and a popstate
\* listener is added; each records a navigation entry with location.href.
\* One page is followed through a few navigations; of the last wrapper call
\* the page keeps the receiver and arguments, what the original saw, the
\* order of the steps and what the caller got.

MaxNavigations == 3

Urls == {"/a", "/b"}

HistoryMethods == {"pushState", "replaceState"}

BrowsingPages ==
    {[phase |-> "browsing", isRecording |-> r, href |-> "/a",
      interactions |-> <<>>, navigations |-> 0, last |-> "none",
      this |-> "owner", args |-> "/a", original |-> "return",
      invoked |-> <<>>, steps |-> <<>>, outcome |-> NoOutcome] :
        r \in BOOLEAN}

\* recordNavigation(trigger)
recordNavigation(p, trigger) ==
    [addInteraction(p, [type |-> "navigation", target |-> "history",
                        url |-> p.href, trigger |-> trigger])
     EXCEPT !.steps = Append(@, "record")]

\* originalPushState.apply(this, arguments): the browser changes the URL,
\* or throws (a URL of another origin, state that cannot be cloned)
originalState(p, receiver, url, original) ==
    [p EXCEPT !.href = IF original = "return" THEN url ELSE @,
              !.invoked = Append(@, [this |-> receiver, args |-> url]),
              !.steps = Append(@, "original")]

\* the page when a wrapper is called
Called(p, method, receiver, url, original) ==
    [p EXCEPT !.navigations = @ + 1, !.last = method, !.this = receiver,
              !.args = url, !.original = original, !.invoked = <<>>,
              !.steps = <<>>, !.outcome = NoOutcome]

\* the wrapper with the entry recorded before the original runs
historyWrapperRecordFirst(p, method, receiver, url, original) ==
    LET q == recordNavigation(Called(p, method, receiver, url, original),
                              method)
        o == originalState(q, receiver, url, original)
    IN IF original = "throw"
       THEN [o EXCEPT !.outcome = Thrown("original")]
       ELSE [o EXCEPT !.outcome = [kind |-> "return", val |-> "original"]]

\* history.pushState = function() {
\*   var result = originalPushState.apply(this, arguments);
\*   recordNavigation('pushState'); return result; }
historyWrapper(p, method, receiver, url, original) ==
    LET o == originalState(Called(p, method, receiver, url, original),
                           receiver, url, original)
    IN IF original = "throw"
       THEN [o EXCEPT !.outcome = Thrown("original")]
       ELSE [recordNavigation(o, method)
             EXCEPT !.outcome = [kind |-> "return", val |-> "original"]]

\* the user goes back or forward: the URL changes, then the popstate
\* listener runs
onPopstate(p, url) ==
    recordNavigation([p EXCEPT !.href = url, !.navigations = @ + 1,
                               !.last = "popstate", !.invoked = <<>>,
                               !.steps = <<>>, !.outcome = NoOutcome],
                     "popstate")

NavInit ==
    /\ RecorderInit
    /\ call = NoCall
    /\ page \in BrowsingPages

HistoryCall ==
    \E method \in HistoryMethods, receiver \in Receivers, url \in Urls,
       original \in {"return", "throw"} :
        /\ page.phase = "browsing"
        /\ page.navigations < MaxNavigations
        /\ page' = historyWrapper(page, method, receiver, url, original)
        /\ UNCHANGED <<recorder, call>>

Popstate ==
    \E url \in Urls :
        /\ page.phase = "browsing"
        /\ page.navigations < MaxNavigations
        /\ page' = onPopstate(page, url)
        /\ UNCHANGED <<recorder, call>>

NavNext ==
    \/ HistoryCall
    \/ Popstate

NavSpec == NavInit /\ [][NavNext]_vars

injectInteractionRecorder ==
    /\ page.phase = "loaded"
    /\ page.evaluated["interactions"] < MaxInjections
    /\ PageStep(InjectTap(page, "interactions"), "interactions")

LoneNext ==
    \/ injectInteractionRecorder
    \/ InjNext

LoneSpec == InjInit /\ [][LoneNext]_vars

\* the interaction recorder ran when the append function was missing
Disabled(p) == p.sentinel["interactions"] /\ p.layers["interactions"] = 0

MaxRequests == 3

MAX_TAP_ENTRIES == 2

ResourceStatuses == {0, 200, 404}

NetworkPage ==
    [phase |-> "network", isRecording |-> TRUE, requests |-> 0,
     tapLog |-> <<>>, sessionLog |-> <<>>]

\* addEntry(entry) of the always-on tap
addEntry(p, entry) ==
    [p EXCEPT !.tapLog = PushShift(@, entry, MAX_TAP_ENTRIES)]

NetEntry(via, url, status, failed) ==
    [via |-> via, url |-> url, status |-> status, failed |-> failed]

\* both fetch wrappers, .then branch: failed: !response.ok
onTapFetchResolved(p, url, status) ==
    [addEntry(p, NetEntry("fetch", url, status, ~ResponseOk(status)))
     EXCEPT !.sessionLog =
        IF p.isRecording
        THEN PushShift(@, NetEntry("fetch", url, status, ~ResponseOk(status)),
                       MAX_NETWORK_ENTRIES)
        ELSE @]

\* both fetch wrappers, .catch branch: status: 0, failed: true
onTapFetchRejected(p, url) ==
    [addEntry(p, NetEntry("fetch", url, 0, TRUE))
     EXCEPT !.sessionLog =
        IF p.isRecording THEN Push(@, NetEntry("fetch", url, 0, TRUE)) ELSE @]

\* both loadend listeners: failed: xhr.status === 0 || xhr.status >= 400
onTapLoadend(p, url, status) ==
    [addEntry(p, NetEntry("xhr", url, status, status = 0 \/ status >= 400))
     EXCEPT !.sessionLog =
        IF p.isRecording
        THEN PushShift(@, NetEntry("xhr", url, status,
                                   status = 0 \/ status >= 400),
                       MAX_NETWORK_ENTRIES)
        ELSE @]

\* PerformanceObserver callback for one resource entry of initiator type
\* fetch or xmlhttprequest; near: the entry began within a second of a
\* logged request's timestamp
onResource(p, url, responseStatus, near) ==
    IF near /\ \E i \in DOMAIN p.tapLog : p.tapLog[i].url = url
    THEN p
    ELSE addEntry(p, NetEntry("observer", url, responseStatus, FALSE))

NetInit ==
    /\ RecorderInit
    /\ call = NoCall
    /\ \E r \in BOOLEAN : page = [NetworkPage EXCEPT !.isRecording = r]

NetEvent(p) ==
    /\ page.requests < MaxRequests
    /\ page' = [p EXCEPT !.requests = @ + 1]
    /\ UNCHANGED <<recorder, call>>

TapFetchResolved ==
    \E url \in Urls, status \in FetchStatuses :
        /\ page.phase = "network"
        /\ NetEvent(onTapFetchResolved(page, url, status))

TapFetchRejected ==
    \E url \in Urls :
        /\ page.phase = "network"
        /\ NetEvent(onTapFetchRejected(page, url))

TapLoadend ==
    \E url \in Urls, status \in XhrStatuses :
        /\ page.phase = "network"
        /\ NetEvent(onTapLoadend(page, url, status))

ResourceObserved ==
    \E url \in Urls, status \in ResourceStatuses, near \in BOOLEAN :
        /\ page.phase = "network"
        /\ NetEvent(onResource(page, url, status, near))

NetNext ==
    \/ TapFetchResolved
    \/ TapFetchRejected
    \/ TapLoadend
    \/ ResourceObserved

NetSpec == NetInit /\ [][NetNext]_vars

\* failed = transport error (status 0) OR status 0 OR status >= 400
FailedAsSpecified(entry) ==
    entry.failed <=> (entry.status = 0 \/ entry.status >= 400)

\* C26: in the always-on log and in the session log, whatever path built
\* the entry, failed is true exactly when the request ended in a transport
\* error, or its status is 0, or its status is 400 or more.
C26_FailedFlag ==
    page.phase = "network" =>
        /\ \A i \in DOMAIN page.tapLog : FailedAsSpecified(page.tapLog[i])
        /\ \A i \in DOMAIN page.sessionLog :
              FailedAsSpecified(page.sessionLog[i])

\* --------------------------------------------- requests that overlap in time
\* A session that has just been started on a page is followed through
\* console calls, interactions and requests only; the entry the start
\* itself logged has uid 0, so that two requests and a tick of the clock fit
\* into MaxEvents.
OverlapInit ==
    /\ session = StartSessionFn(InitSession, "s1", 1, 0)
    /\ now = 1
    /\ pending = {}
    /\ bodyReads = {}
    /\ returned = NoReturn
    /\ aliased = FALSE
    /\ ret = NoReturn
    /\ nextUid = 1
    /\ appended = Track(NoHistory, InitSession, session)
    /\ call = NoCall
    /\ page = NoPage

OverlapNext ==
    \/ Tick
    \/ ConsoleCall
    \/ AddInteraction
    \/ FetchCall
    \/ FetchResolved
    \/ FetchRejected
    \/ BodyReadSettled
    \/ XhrSend
    \/ XhrLoadend

OverlapSpec == OverlapInit /\ [][OverlapNext]_vars

\* the entries of a buffer are in non-decreasing order of timestamp
TimeOrdered(buffer) ==
    \A i, j \in DOMAIN buffer :
        i < j => buffer[i].timestamp <= buffer[j].timestamp

\* C27: each session buffer is time-ordered: after any interleaving of
\* events and completions, requests that finish in another order than they
\* started included, the entries of consoleLog, networkLog and interactions
\* are in non-decreasing order of their timestamp.
C27_TimeOrdered ==
    /\ TimeOrdered(session.consoleLog)
    /\ TimeOrdered(session.networkLog)
    /\ TimeOrdered(session.interactions)

\* ------------------------------------------------- storage in a snapshot
\* __AI_CONTEXT_TAKE_SNAPSHOT__ (and takeSnapshot of the Safari content
\* script, line for line the same) walks localStorage and sessionStorage
\* and copies the values that pass `value && value.length < 1000`.  The cap
\* is scaled down; a storage is a function from its keys to their values.

MAX_STORAGE_VALUE == 3

StorageKeys == {"k1", "k2"}

\* the string of n characters
RECURSIVE Filler(_)
Filler(n) == IF n = 0 THEN "" ELSE Filler(n - 1) \o "x"

\* values of every length up to one more than the cap
StorageValues == {Filler(n) : n \in 0..(MAX_STORAGE_VALUE + 1)}

Storages == UNION {[keys -> StorageValues] : keys \in SUBSET StorageKeys}

\* for (i ...) { key = storage.key(i); value = storage.getItem(key);
\*   if (value && value.length < 1000) result[key] = value; }
captureStorage(storage) ==
    [key \in {k \in DOMAIN storage :
                 storage[k] # "" /\ Len(storage[k]) < MAX_STORAGE_VALUE}
        |-> storage[key]]

\* the storage part of the snapshot; NULL when no session is recording
storageSnapshot(p) ==
    IF ~p.isRecording THEN [p EXCEPT !.phase = "refused"]
    ELSE [p EXCEPT !.phase = "taken",
                   !.snapshot = [localStorage |-> captureStorage(p.localStorage),
                                 sessionStorage |-> captureStorage(p.sessionStorage)]]

StorageInit ==
    /\ RecorderInit
    /\ call = NoCall
    /\ \E l \in Storages, r \in BOOLEAN :
        \E v \in StorageValues :
          page = [phase |-> "storage", isRecording |-> r, localStorage |-> l,
                  sessionStorage |-> [key \in {"tab"} |-> v],
                  snapshot |-> [localStorage |-> <<>>, sessionStorage |-> <<>>]]

TakeStorageSnapshot ==
    /\ page.phase = "storage"
    /\ page' = storageSnapshot(page)
    /\ UNCHANGED <<recorder, call>>

StorageNext == TakeStorageSnapshot

StorageSpec == StorageInit /\ [][StorageNext]_vars

\* the key is in the snapshot with its whole value when the value is within
\* the cap, and not in the snapshot when it is longer
CappedCopy(storage, copy) ==
    \A key \in DOMAIN storage :
        IF Len(storage[key]) <= MAX_STORAGE_VALUE
        THEN key \in DOMAIN copy /\ copy[key] = storage[key]
        ELSE key \notin DOMAIN copy

\* C28: for every localStorage and sessionStorage key present when the
\* snapshot is taken, the snapshot holds the key with its full value when
\* the value's length is within the cap and does not hold the key when it is
\* longer; no value is stored truncated.
C28_StorageCapped ==
    page.phase = "taken" =>
        /\ CappedCopy(page.localStorage, page.snapshot.localStorage)
        /\ CappedCopy(page.sessionStorage, page.snapshot.sessionStorage)

\* ----------------------------------------------------------- CSS selectors
\* getCssSelector of the Chrome extension (constants.js, and the same code
\* in the content script) and of the Safari content script, applied to the
\* elements of a small document:
\*   html(1) > body(2) > div(3) > span(5), span(6)
\*                       div(4) > span(7)
\* A selector is kept as its text and as the compound selectors a CSS parser
\* reads from that text.

\* content.js: const MAX_SELECTOR_DEPTH = 10
MAX_SELECTOR_DEPTH == 10

Elements == 1..7

NoElement == 0

parentElement == <<0, 1, 2, 2, 3, 3, 4>>

tagName == <<"html", "body", "div", "div", "span", "span", "span">>

DocumentOrder == <<1, 2, 3, 5, 6, 4, 7>>

\* the elements whose id and class attributes vary
Targets == 3..7

ElementIds == {"", "main", "a.b"}

ClassNames == {"", "btn"}

Styled == {3, 5}

Documents ==
    {[id |-> [e \in Elements |-> IF e \in Targets THEN ids[e] ELSE ""],
      className |-> [e \in Elements |-> IF e \in Styled THEN cls[e] ELSE ""]] :
        ids \in [Targets -> ElementIds], cls \in [Styled -> ClassNames]}

\* parent.children with the element's tag, in document order
SameTagSiblings(e) ==
    SelectSeq(DocumentOrder,
              LAMBDA c : parentElement[c] = parentElement[e]
                         /\ tagName[c] = tagName[e])

\* siblings.indexOf(e) + 1
IndexOf(seq, e) == CHOOSE i \in DOMAIN seq : seq[i] = e

\* 0 stands for no :nth-of-type()
NthOfType(e) ==
    IF parentElement[e] # NoElement /\ Len(SameTagSiblings(e)) > 1
    THEN IndexOf(SameTagSiblings(e), e)
    ELSE 0

\* place of the first "." of the text, 0 when there is none
DotAt(str) ==
    IF \E i \in 1..Len(str) : SubSeq(str, i, i) = "."
    THEN CHOOSE i \in 1..Len(str) :
            /\ SubSeq(str, i, i) = "."
            /\ \A j \in 1..(i - 1) : SubSeq(str, j, j) # "."
    ELSE 0

\* what a CSS parser reads from "#" + text: an id, and a class after a dot
ParsedId(str) ==
    IF str = "" THEN [id |-> "", classes |-> {}]
    ELSE IF DotAt(str) = 0 THEN [id |-> str, classes |-> {}]
    ELSE [id |-> SubSeq(str, 1, DotAt(str) - 1),
          classes |-> {SubSeq(str, DotAt(str) + 1, Len(str))}]

\* one compound selector: its text and what it is parsed as
Compound(tag, id, class, nth) ==
    [text |-> tag \o (IF id = "" THEN "" ELSE "#" \o id)
                  \o (IF class = "" THEN "" ELSE "." \o class)
                  \o (IF nth = 0 THEN ""
                      ELSE ":nth-of-type(" \o ToString(nth) \o ")"),
     tag |-> tag,
     id |-> ParsedId(id).id,
     classes |-> ParsedId(id).classes
                 \cup (IF class = "" THEN {} ELSE {class}),
     nth |-> nth]

\* parts.join(' > ')
RECURSIVE Join(_)
Join(parts) ==
    IF parts = <<>> THEN ""
    ELSE IF Len(parts) = 1 THEN parts[1].text
    ELSE parts[1].text \o " > " \o Join(Tail(parts))

\* the while loop of the Chrome getCssSelector, from the element up to the
\* root: tag, '#' + id, '.' + classes, ':nth-of-type(n)'
RECURSIVE ChromePath(_, _)
ChromePath(doc, e) ==
    IF e = NoElement THEN <<>>
    ELSE ChromePath(doc, parentElement[e])
         \o <<Compound(tagName[e], doc.id[e], doc.className[e], NthOfType(e))>>

\* constants.js getCssSelector(el)
getCssSelector(doc, el) ==
    [text |-> Join(ChromePath(doc, el)), parts |-> ChromePath(doc, el)]

\* /^[a-zA-Z][a-zA-Z0-9_-]*$/.test(id), for ids made of letters and dots
ValidId(id) == id # "" /\ DotAt(id) = 0

\* the while loop of the Safari getCssSelector: stops at html and body, at
\* an element with a well-formed id, and at MAX_SELECTOR_DEPTH
RECURSIVE SafariPath(_, _, _)
SafariPath(doc, e, depth) ==
    IF e = NoElement \/ depth >= MAX_SELECTOR_DEPTH \/ e \in {1, 2} THEN <<>>
    ELSE IF ValidId(doc.id[e]) THEN <<Compound("", doc.id[e], "", 0)>>
    ELSE SafariPath(doc, parentElement[e], depth + 1)
         \o <<Compound(tagName[e], "", "", NthOfType(e))>>

\* Safari content.js getCssSelector(element)
safariGetCssSelector(doc, el) ==
    IF SafariPath(doc, el, 0) = <<>>
    THEN [text |-> tagName[el], parts |-> <<Compound(tagName[el], "", "", 0)>>]
    ELSE [text |-> Join(SafariPath(doc, el, 0)),
          parts |-> SafariPath(doc, el, 0)]

\* the element matches one compound selector
MatchesCompound(doc, e, c) ==
    /\ c.tag = "" \/ c.tag = tagName[e]
    /\ c.id = "" \/ c.id = doc.id[e]
    /\ c.classes \subseteq (IF doc.className[e] = "" THEN {}
                            ELSE {doc.className[e]})
    /\ c.nth = 0 \/ c.nth = IndexOf(SameTagSiblings(e), e)

\* the element matches parts[1] > ... > parts[n]
RECURSIVE MatchesPath(_, _, _, _)
MatchesPath(doc, e, parts, n) ==
    /\ MatchesCompound(doc, e, parts[n])
    /\ n = 1 \/ (parentElement[e] # NoElement
                 /\ MatchesPath(doc, parentElement[e], parts, n - 1))

\* document.querySelector(selector): the first match in document order
querySelector(doc, parts) ==
    LET hits == SelectSeq(DocumentOrder,
                          LAMBDA e : MatchesPath(doc, e, parts, Len(parts)))
    IN IF hits = <<>> THEN NoElement ELSE hits[1]

DomInit ==
    /\ RecorderInit
    /\ call = NoCall
    /\ \E doc \in Documents, el \in Targets :
          page = [phase |-> "dom", doc |-> doc, el |-> el,
                  selector |-> "", found |-> NoElement,
                  safariSelector |-> "", safariFound |-> NoElement]

\* the user picks the element: both extensions compute its selector, and
\* the selector is looked up in the document
PickElement ==
    /\ page.phase = "dom"
    /\ page' = [page EXCEPT
          !.phase = "picked",
          !.selector = getCssSelector(page.doc, page.el).text,
          !.found = querySelector(page.doc,
                                  getCssSelector(page.doc, page.el).parts),
          !.safariSelector = safariGetCssSelector(page.doc, page.el).text,
          !.safariFound =
              querySelector(page.doc,
                            safariGetCssSelector(page.doc, page.el).parts)]
    /\ UNCHANGED <<recorder, call>>

DomNext == PickElement

DomSpec == DomInit /\ [][DomNext]_vars

\* no other element of the document has the element's id
UniqueId(doc, el) ==
    /\ doc.id[el] # ""
    /\ \A other \in Elements \ {el} : doc.id[other] # doc.id[el]

\* C29: for an element with a unique id, getCssSelector(el) is '#' + id,
\* and document.querySelector of that selector is the element.
C29_SelectorRoundTrip ==
    (page.phase = "picked" /\ UniqueId(page.doc, page.el)) =>
        /\ page.selector = "#" \o page.doc.id[page.el]
        /\ page.found = page.el
        /\ page.safariSelector = "#" \o page.doc.id[page.el]
        /\ page.safariFound = page.el

\* ------------------------------------------------ developer-declared context
\* After framework introspection has filled component.name and
\* component.file (null where it found nothing), the element's
\* data-ai-context attribute is parsed and its component and file fields are
\* applied.  The framework detector, the content script's captureElementData
\* and Safari's extractElementData do this with the same statements.

ComponentNames == {NULL, "App", "Button"}

ComponentFiles == {NULL, "App.jsx", "Button.jsx"}

DetectedComponents ==
    {[name |-> n, file |-> f] : n \in ComponentNames, f \in ComponentFiles}

\* the attribute: absent, not JSON, the JSON text null, or a JSON object
\* whose component and file are strings or missing (NULL)
ContextAttributes ==
    {[kind |-> k, component |-> NULL, file |-> NULL] :
        k \in {"absent", "invalid", "null"}}
    \cup {[kind |-> "object", component |-> c, file |-> f] :
            c \in {NULL, "Dev", "App"}, f \in {NULL, "dev.js", "App.jsx"}}

\* if (devContext.component) component.name = component.name || devContext.component;
\* if (devContext.file) component.file = devContext.file;
\* JSON.parse throws on text that is not JSON and reading a field of null
\* throws; both are caught and leave the component as it is.
applyDeveloperContext(component, attr) ==
    IF attr.kind # "object" THEN component
    ELSE [name |-> IF attr.component # NULL /\ component.name = NULL
                   THEN attr.component ELSE component.name,
          file |-> IF attr.file # NULL THEN attr.file ELSE component.file]

ContextInit ==
    /\ RecorderInit
    /\ call = NoCall
    /\ \E c \in DetectedComponents, a \in ContextAttributes :
          page = [phase |-> "inspected", component |-> c, attr |-> a,
                  info |-> c, via |-> "none"]

Captured(via) ==
    /\ page.phase = "inspected"
    /\ page' = [page EXCEPT
                  !.phase = "captured", !.via = via,
                  !.info = applyDeveloperContext(page.component, page.attr)]
    /\ UNCHANGED <<recorder, call>>

\* the framework detector evaluated in the page
DetectorCapture ==
    /\ page.phase = "inspected"
    /\ Captured("detector")

\* content script: captureElementData(el)
CaptureElementData ==
    /\ page.phase = "inspected"
    /\ Captured("content")

\* Safari content script: extractElementData(element)
ExtractElementData ==
    /\ page.phase = "inspected"
    /\ Captured("safari")

ContextNext ==
    \/ DetectorCapture
    \/ CaptureElementData
    \/ ExtractElementData

ContextSpec == ContextInit /\ [][ContextNext]_vars

\* C30: when data-ai-context holds valid JSON, a component name or file
\* that introspection found (not null) is the one in the resulting
\* ComponentInfo; the declared component and file fill in only what was
\* left null.
C30_DetectedKept ==
    (page.phase = "captured" /\ page.attr.kind \in {"null", "object"}) =>
        /\ page.component.name # NULL => page.info.name = page.component.name
        /\ page.component.file # NULL => page.info.file = page.component.file

\* ------------------------------------------------------ framework detection
\* detectFramework() exists in three copies: the inspector's framework
\* detector (first getFrameworkDetectorCode), a second detector with the
\* same name, and the content script.  The second and third have the same
\* text.  A page is described by the window globals it defines, the
\* attribute names and the Svelte-style class present somewhere in its
\* document, and the place of an element carrying a React fiber key.  Only
\* the name of the FrameworkIdentity is modelled; a global React handle is
\* taken to carry its version.

WindowGlobals ==
    {"__REACT_DEVTOOLS_GLOBAL_HOOK__", "React", "Vue", "ng", "__svelte"}

AttributeNames ==
    {"data-reactroot", "data-v-7ba5bd90", "v-cloak", "_ngcontent-c0",
     "ng-version"}

\* where a __reactFiber$ key sits: nowhere, on the root element (#root,
\* #app or the first child of body), on one of the first 20 elements of
\* body *, or only on later ones
FiberPlaces == {"none", "root", "near", "far"}

WebPages ==
    {[globals |-> g, attributes |-> a, svelteClass |-> s, fiber |-> f] :
        g \in SUBSET WindowGlobals, a \in SUBSET AttributeNames,
        s \in BOOLEAN, f \in FiberPlaces}

\* document.querySelector('[name]'): an element has an attribute of exactly
\* that name
hasAttribute(w, name) == name \in w.attributes

\* detectFramework of the inspector's framework detector
detectFramework(w) ==
    IF "__REACT_DEVTOOLS_GLOBAL_HOOK__" \in w.globals THEN "react"
    ELSE IF "React" \in w.globals THEN "react"
    ELSE IF w.fiber = "root" THEN "react"
    ELSE IF hasAttribute(w, "data-reactroot") \/ hasAttribute(w, "data-reactid")
         THEN "react"
    ELSE IF w.fiber \in {"root", "near"} THEN "react"
    ELSE IF "Vue" \in w.globals \/ "__VUE__" \in w.globals THEN "vue"
    ELSE IF hasAttribute(w, "data-v-") \/ hasAttribute(w, "v-cloak") THEN "vue"
    ELSE IF "ng" \in w.globals \/ "getAllAngularRootElements" \in w.globals
         THEN "angular"
    ELSE IF hasAttribute(w, "_ngcontent-") \/ hasAttribute(w, "ng-reflect-")
         THEN "angular"
    ELSE IF w.svelteClass \/ "__svelte" \in w.globals THEN "svelte"
    ELSE NULL

\* detectFramework of the second detector and of the content script: every
\* global first, then the Svelte class, then the DOM markers
detectFrameworkGlobalsFirst(w) ==
    IF "React" \in w.globals \/ "__REACT_DEVTOOLS_GLOBAL_HOOK__" \in w.globals
    THEN "react"
    ELSE IF "Vue" \in w.globals \/ "__VUE__" \in w.globals THEN "vue"
    ELSE IF "ng" \in w.globals \/ "getAllAngularRootElements" \in w.globals
         THEN "angular"
    ELSE IF w.svelteClass \/ "__svelte" \in w.globals THEN "svelte"
    ELSE IF hasAttribute(w, "data-reactroot") \/ hasAttribute(w, "data-reactid")
         THEN "react"
    ELSE IF hasAttribute(w, "data-v-") \/ hasAttribute(w, "v-cloak") THEN "vue"
    ELSE IF hasAttribute(w, "_ngcontent-") \/ hasAttribute(w, "ng-reflect-")
         THEN "angular"
    ELSE NULL

DetectInit ==
    /\ RecorderInit
    /\ call = NoCall
    /\ \E w \in WebPages :
          page = [phase |-> "loaded", window |-> w, via |-> "none",
                  framework |-> NULL]

\* result.framework = detectFramework() in the framework detector
DetectFramework ==
    /\ page.phase = "loaded"
    /\ page' = [page EXCEPT !.phase = "detected", !.via = "detector",
                            !.framework = detectFramework(page.window)]
    /\ UNCHANGED <<recorder, call>>

\* result.framework = detectFramework() in the second detector
DetectFrameworkSecond ==
    /\ page.phase = "loaded"
    /\ page' = [page EXCEPT !.phase = "detected", !.via = "second",
                            !.framework = detectFrameworkGlobalsFirst(page.window)]
    /\ UNCHANGED <<recorder, call>>

\* the content script's detectFramework()
DetectFrameworkContent ==
    /\ page.phase = "loaded"
    /\ page' = [page EXCEPT !.phase = "detected", !.via = "content",
                            !.framework = detectFrameworkGlobalsFirst(page.window)]
    /\ UNCHANGED <<recorder, call>>

DetectNext ==
    \/ DetectFramework
    \/ DetectFrameworkSecond
    \/ DetectFrameworkContent

DetectSpec == DetectInit /\ [][DetectNext]_vars

\* the markers of each framework as the specification lists them
ReactMarker(w) ==
    \/ "__REACT_DEVTOOLS_GLOBAL_HOOK__" \in w.globals
    \/ "React" \in w.globals
    \/ w.fiber \in {"root", "near"}
    \/ "data-reactroot" \in w.attributes

VueMarker(w) ==
    \/ "Vue" \in w.globals
    \/ "v-cloak" \in w.attributes
    \/ \E a \in w.attributes : startsWith(a, "data-v-")

AngularMarker(w) ==
    \/ "ng" \in w.globals
    \/ "ng-version" \in w.attributes
    \/ \E a \in w.attributes : startsWith(a, "_ngcontent-")

SvelteMarker(w) == w.svelteClass \/ "__svelte" \in w.globals

FirstMarked(w) ==
    IF ReactMarker(w) THEN "react"
    ELSE IF VueMarker(w) THEN "vue"
    ELSE IF AngularMarker(w) THEN "angular"
    ELSE IF SvelteMarker(w) THEN "svelte"
    ELSE NULL

\* C31: detection returns the first framework, in the order React, Vue,
\* Angular, Svelte, one of whose markers is present on the page, and null
\* when none is.
C31_FirstMarkerWins ==
    page.phase = "detected" => page.framework = FirstMarked(page.window)

\* ------------------------------------------------------- Markdown rendering
\* formatReportAsMarkdown (formatter module and the sidebar's own copy) and
\* formatSessionAsMarkdown build a list of lines and join it with newlines;
\* the text is kept here as the list of lines.  Date.prototype.toLocaleString
\* prints a time to the second in the locale and time zone of the machine,
\* which stay the same between two renderings: it is modelled as the count
\* of whole seconds.  Times are in milliseconds.  Of a Report the header,
\* the comment and the Element section are modelled, of a Session the
\* header, the comment and the timeline of interactions; the sections left
\* out are built from fields of the input alone.  The backquote character
\* of the Markdown text is written ' here.

MaxRenders == 2

MaxRenderClock == 2000

toLocaleString(t) == "date " \o ToString(t \div 1000)

\* String(n).padStart(2, '0')
padStart(n) == IF n < 10 THEN "0" \o ToString(n) ELSE ToString(n)

formatTimeOffset(seconds) ==
    padStart(seconds \div 60) \o ":" \o padStart(seconds % 60)

formatDuration(ms) ==
    IF ms < 1000 THEN ToString(ms) \o "ms"
    ELSE IF ms \div 1000 < 60 THEN ToString(ms \div 1000) \o "s"
    ELSE ToString((ms \div 1000) \div 60) \o "m "
            \o ToString((ms \div 1000) % 60) \o "s"

\* value || fallback for a string or null
OrElse(value, fallback) == IF value = NULL \/ value = "" THEN fallback ELSE value

\* lines.push(...) guarded by a condition
PushIf(cond, lines) == IF cond THEN lines ELSE <<>>

CommentSection(comment) ==
    PushIf(OrElse(comment, NULL) # NULL, <<"## Comment", "", comment, "">>)

\* if (report.element) ...: an element object without tag and selector
\* stands for a report without the element
ElementSection(element) ==
    PushIf(element.tagName # NULL \/ element.selector # NULL,
           <<"## Element", "">>
           \o PushIf(element.tagName # NULL,
                     <<"- **Tag:** '<" \o element.tagName \o ">'">>)
           \o PushIf(element.selector # NULL,
                     <<"- **CSS Selector:** '" \o element.selector \o "'">>)
           \o <<"">>)

\* lib/markdown-formatter.js; currentTime is what new Date() gives
formatReportAsMarkdown(report, projectName, currentTime) ==
    <<"# Element Context Report", "">>
    \o PushIf(projectName # NULL, <<"**Project:** " \o projectName>>)
    \o PushIf(report.framework.name # NULL,
              <<"**Framework:** " \o report.framework.name
                  \o (IF report.framework.version # NULL
                      THEN " " \o report.framework.version ELSE "")>>)
    \o <<"**Page URL:** " \o OrElse(report.url, ""),
         "**Captured:** " \o toLocaleString(currentTime), "">>
    \o CommentSection(report.comment)
    \o ElementSection(report.element)

\* entrypoints/sidebar/main.js
sidebarFormatReportAsMarkdown(report, currentTime) ==
    <<"# Element Context Report", "",
      "**Page URL:** " \o OrElse(report.url, ""),
      "**Captured:** " \o toLocaleString(currentTime), "">>
    \o CommentSection(report.comment)
    \o ElementSection(report.element)

\* events.sort((a, b) => a.time - b.time): a stable sort, here of at most
\* two events
sortByTime(events) ==
    IF Len(events) = 2 /\ events[1].time > events[2].time
    THEN <<events[2], events[1]>> ELSE events

\* Math.round((time - startTime) / 1000) for time >= startTime
roundSeconds(ms) == (ms + 500) \div 1000

TimelineLine(e, startTime) ==
    formatTimeOffset(roundSeconds(e.time - startTime)) \o " " \o e.label

formatSessionAsMarkdown(sess, comment) ==
    LET events == sortByTime(
            [k \in DOMAIN sess.interactions |->
                [time |-> sess.interactions[k].timestamp,
                 label |-> "[" \o sess.interactions[k].type \o "] "
                             \o sess.interactions[k].target]])
    IN  <<"# Deep Inspection Session Report", "",
          "**Session ID:** " \o sess.sessionId,
          "**URL:** " \o OrElse(sess.url, "Unknown"),
          "**Duration:** " \o formatDuration(sess.duration),
          "**Recorded:** " \o toLocaleString(sess.startTime), "">>
        \o CommentSection(comment)
        \o <<"## Session Timeline", "", "'''">>
        \o [k \in DOMAIN events |-> TimelineLine(events[k], sess.startTime)]
        \o PushIf(Len(events) = 0, <<"(No significant events recorded)">>)
        \o <<"'''", "">>

SavedReports ==
    {[url |-> u, timestamp |-> 1000, comment |-> c, framework |-> f,
      element |-> e] :
        u \in {NULL, "/a"}, c \in {NULL, "fix"},
        f \in {[name |-> NULL, version |-> NULL],
               [name |-> "react", version |-> NULL],
               [name |-> "react", version |-> "18"]},
        e \in {[tagName |-> NULL, selector |-> NULL],
               [tagName |-> "div", selector |-> "#a"]}}

Clicked(t) == [type |-> "click", target |-> "#a", timestamp |-> t]

Typed(t) == [type |-> "input", target |-> "#b", timestamp |-> t]

StoppedSessions ==
    {[sessionId |-> "s1", url |-> "/a", startTime |-> 1000, duration |-> d,
      interactions |-> i] :
        d \in {500, 61000},
        i \in {<<>>, <<Clicked(1400)>>, <<Clicked(1400), Typed(2600)>>,
               <<Typed(2600), Clicked(1400)>>}}

RenderInit ==
    /\ RecorderInit
    /\ call = NoCall
    /\ \E r \in SavedReports, s \in StoppedSessions, n \in {NULL, "shop"} :
          page = [phase |-> "rendering", report |-> r, projectName |-> n,
                  session |-> s, comment |-> r.comment, now |-> 1000,
                  renders |-> <<>>]

Rendered(p, fn, text) ==
    [p EXCEPT !.renders = Append(@, [fn |-> fn, at |-> p.now, text |-> text])]

\* background export of a saved report
RenderReport ==
    /\ page.phase = "rendering"
    /\ Len(page.renders) < MaxRenders
    /\ page' = Rendered(page, "report",
                 formatReportAsMarkdown(page.report, page.projectName, page.now))
    /\ UNCHANGED <<recorder, call>>

\* the sidebar's copy to clipboard
RenderSidebarReport ==
    /\ page.phase = "rendering"
    /\ Len(page.renders) < MaxRenders
    /\ page' = Rendered(page, "sidebar",
                 sidebarFormatReportAsMarkdown(page.report, page.now))
    /\ UNCHANGED <<recorder, call>>

RenderSession ==
    /\ page.phase = "rendering"
    /\ Len(page.renders) < MaxRenders
    /\ page' = Rendered(page, "session",
                 formatSessionAsMarkdown(page.session, page.comment))
    /\ UNCHANGED <<recorder, call>>

RenderClockAdvance ==
    /\ page.phase = "rendering"
    /\ page.now < MaxRenderClock
    /\ page' = [page EXCEPT !.now = @ + 500]
    /\ UNCHANGED <<recorder, call>>

RenderNext ==
    \/ RenderReport
    \/ RenderSidebarReport
    \/ RenderSession
    \/ RenderClockAdvance

RenderSpec == RenderInit /\ [][RenderNext]_vars

\* C32: two renderings of the same input by the same function, whenever
\* they are made, give the same text.
C32_RenderDeterministic ==
    \A i, j \in DOMAIN page.renders :
        page.renders[i].fn = page.renders[j].fn =>
            page.renders[i].text = page.renders[j].text

\* --------------------------------------------------------- export filenames
\* generateFilename (background script and the sidebar's copy, same text)
\* and generateSessionFilename build date-time-host-element[-id].md.  The
\* URL is given as the hostname the URL parser yields for it (lower case),
\* or NULL for a URL the parser rejects; the date and time parts are digits
\* taken from the clock and are kept as one fixed stamp.

MAX_HOST_LENGTH == 30

MAX_ID_LENGTH == 20

SmallLetters == "abcdefghijklmnopqrstuvwxyz"

CapitalLetters == "ABCDEFGHIJKLMNOPQRSTUVWXYZ"

Digits == "0123456789"

CharsOf(str) == {SubSeq(str, i, i) : i \in 1..Len(str)}

\* [^a-z0-9] under the flags gi: every character that is not a letter of
\* either case or a digit
NonAlphanumeric(ch) ==
    ch \notin CharsOf(SmallLetters) \cup CharsOf(CapitalLetters) \cup CharsOf(Digits)

\* str.replace(/[^a-z0-9]/gi, '-')
RECURSIVE replaceNonAlphanumeric(_)
replaceNonAlphanumeric(str) ==
    IF str = "" THEN ""
    ELSE (IF NonAlphanumeric(SubSeq(str, 1, 1)) THEN "-" ELSE SubSeq(str, 1, 1))
            \o replaceNonAlphanumeric(SubSeq(str, 2, Len(str)))

\* str.replace(/^www\./, '')
stripWww(str) ==
    IF startsWith(str, "www.") THEN SubSeq(str, 5, Len(str)) ELSE str

\* new URL(url).hostname.replace(...).replace(...).slice(0, 30), 'unknown'
\* when the URL constructor throws
hostPart(hostname) ==
    IF hostname = NULL THEN "unknown"
    ELSE substring(replaceNonAlphanumeric(stripWww(hostname)), 0, MAX_HOST_LENGTH)

\* report.element.elementId.replace(...).slice(0, 20)
idPart(elementId) ==
    substring(replaceNonAlphanumeric(elementId), 0, MAX_ID_LENGTH)

generateFilename(stamp, report) ==
    LET element == IF report.tagName = NULL \/ report.tagName = ""
                   THEN "element" ELSE report.tagName
        id == IF report.elementId = NULL \/ report.elementId = "" THEN ""
              ELSE "-" \o idPart(report.elementId)
    IN  stamp \o "-" \o hostPart(report.hostname) \o "-" \o element \o id \o ".md"

generateSessionFilename(stamp, sess) ==
    stamp \o "-" \o hostPart(sess.hostname) \o "-session.md"

Hostnames ==
    {NULL, "localhost", "example.com", "www.example.com", "my--site.io",
     "averyveryverylongsubdomain.example.com"}

ElementIdTexts ==
    {NULL, "", "submit", "MainNav", "user_name", "a..b",
     "checkout-form-submit-button"}

Exportables ==
    {[hostname |-> h, tagName |-> t, elementId |-> i] :
        h \in Hostnames, t \in {NULL, "button"}, i \in ElementIdTexts}

FilenameInit ==
    /\ RecorderInit
    /\ call = NoCall
    /\ \E r \in Exportables :
          page = [phase |-> "saved", report |-> r, via |-> "none",
                  host |-> NULL, id |-> NULL, filename |-> NULL]

Named(via, host, id, filename) ==
    [page EXCEPT !.phase = "named", !.via = via, !.host = host, !.id = id,
                 !.filename = filename]

\* background script: exportReportToFile names the file
GenerateFilename ==
    /\ page.phase = "saved"
    /\ page' = Named("background", hostPart(page.report.hostname),
                     IF page.report.elementId \in {NULL, ""} THEN NULL
                     ELSE idPart(page.report.elementId),
                     generateFilename("2026-11-03-120000", page.report))
    /\ UNCHANGED <<recorder, call>>

\* sidebar: the same function, its own copy
SidebarGenerateFilename ==
    /\ page.phase = "saved"
    /\ page' = Named("sidebar", hostPart(page.report.hostname),
                     IF page.report.elementId \in {NULL, ""} THEN NULL
                     ELSE idPart(page.report.elementId),
                     generateFilename("2026-11-03-120000", page.report))
    /\ UNCHANGED <<recorder, call>>

\* background script: exportSessionToFile names the file
GenerateSessionFilename ==
    /\ page.phase = "saved"
    /\ page' = Named("session", hostPart(page.report.hostname), NULL,
                     generateSessionFilename("2026-11-03-120000", page.report))
    /\ UNCHANGED <<recorder, call>>

FilenameNext ==
    \/ GenerateFilename
    \/ SidebarGenerateFilename
    \/ GenerateSessionFilename

FilenameSpec == FilenameInit /\ [][FilenameNext]_vars

\* lower case, only a-z, 0-9 and '-', no '--', at most cap characters
Sanitized(part, cap) ==
    /\ CharsOf(part) \subseteq CharsOf(SmallLetters) \cup CharsOf(Digits) \cup {"-"}
    /\ ~Contains(part, "--")
    /\ Len(part) <= cap

\* C33: the host component and the element-id component of a generated
\* filename are lower case, hold only a-z, 0-9 and '-', hold no two '-' in
\* a row, and are no longer than their caps (30 and 20).
C33_ComponentsSanitized ==
    page.phase = "named" =>
        /\ Sanitized(page.host, MAX_HOST_LENGTH)
        /\ page.id # NULL => Sanitized(page.id, MAX_ID_LENGTH)

\* ------------------------------------------------ requests across a restart
\* Entry objects are numbered in the order they or their requests begin, and
\* start() logs its first console entry under the next number: an entry or
\* request with a smaller number began before the current session's
\* start().

\* the number of the entry the last start() logged
SessionStartUid == appended.consoleLog[1]

\* C34: every entry in the buffers of the current session belongs to an
\* event or request that began at or after that session's start(): a
\* request started during an earlier session adds nothing to them.
C34_OwnSessionOnly ==
    Len(appended.consoleLog) > 0 =>
        \A k \in LogNames : \A i \in DOMAIN session[k] :
            session[k][i].uid >= SessionStartUid

\* ------------------------------------------------- response body of a fetch
\* The .then branch of the fetch wrapper starts clonedResponse.text() and
\* pushes the entry at once; the callback of the body read runs later and
\* writes entry.responseBody = text.substring(0, MAX_BODY).  Chrome's
\* session recorder and Safari's content script have the same statements
\* (MAX_BODY and MAX_SESSION_BODY_LENGTH are both 5000, scaled down here).
\* The recorder's fetch actions are taken from a just-started session, with
\* the text of the response as an input of the body read.

MAX_BODY == 3

ResponseTexts == {"", "ok", Filler(MAX_BODY + 1)}

\* a body read that keeps the whole text
captureResponseBodyWhole(text) == text

\* text.substring(0, MAX_BODY)
captureResponseBody(text) == substring(text, 0, MAX_BODY)

\* clonedResponse.text() settles with a text, or rejects (NULL)
BodyTextSettled ==
    \E uid \in bodyReads, text \in ResponseTexts \cup {NULL} :
        /\ bodyReads' = bodyReads \ {uid}
        /\ IF text # NULL
           THEN /\ session' = [session EXCEPT !.networkLog =
                                  SetBody(@, uid, captureResponseBody(text))]
                /\ returned' =
                      IF returned.kind = "session" /\ ~aliased
                      THEN [returned EXCEPT !.networkLog =
                              SetBody(@, uid, captureResponseBody(text))]
                      ELSE returned
           ELSE UNCHANGED <<session, returned>>
        /\ ret' = NoReturn
        /\ UNCHANGED <<now, pending, aliased, nextUid, appended, aux>>

BodyNext ==
    \/ Tick
    \/ FetchCall
    \/ FetchResolved
    \/ FetchRejected
    \/ BodyTextSettled

BodySpec == OverlapInit /\ [][BodyNext]_vars

\* entry e of the network log, seen again as f after a step
SameButBody(e, f) == [f EXCEPT !.responseBody = e.responseBody] = e

\* C35: the entry of a fulfilled fetch is in the log with responseBody null
\* while its body read is outstanding; a step changes an entry of the log
\* in its responseBody only, and only by the one body read of that entry,
\* from null to a text of at most MAX_BODY characters.
C35_BodySetOnce ==
    [][/\ \A i \in DOMAIN session.networkLog :
              session.networkLog[i].uid \in bodyReads =>
                  session.networkLog[i].responseBody = NULL
       /\ \A j \in DOMAIN session'.networkLog :
              session'.networkLog[j].uid \in bodyReads' =>
                  session'.networkLog[j].responseBody = NULL
       /\ \A i \in DOMAIN session.networkLog, j \in DOMAIN session'.networkLog :
              session.networkLog[i].uid = session'.networkLog[j].uid =>
                  LET e == session.networkLog[i]
                      f == session'.networkLog[j]
                  IN  /\ SameButBody(e, f)
                      /\ f.responseBody # e.responseBody =>
                            /\ e.via = "fetch"
                            /\ e.responseBody = NULL
                            /\ e.uid \in bodyReads
                            /\ e.uid \notin bodyReads'
                            /\ Len(f.responseBody) <= MAX_BODY]_vars

\* a fulfilled fetch whose response was longer than MAX_BODY: its entry
\* holds the first MAX_BODY characters and no body read is outstanding
C35_Witness ==
    \E i \in DOMAIN session.networkLog :
        /\ session.networkLog[i].via = "fetch"
        /\ session.networkLog[i].uid \notin bodyReads
        /\ session.networkLog[i].responseBody = Filler(MAX_BODY)

\* ------------------------------------------------------------ repeated stop

\* C36: stop() called while isRecording is false (no session started, or
\* the session already stopped) leaves endTime as it was, and after an
\* earlier stop() it returns the endTime and the duration that stop()
\* returned.
C36_StopOnlyWhenRecording ==
    [][(StopSession /\ ~session.isRecording) =>
          /\ session'.endTime = session.endTime
          /\ returned.kind = "session" =>
                /\ returned'.endTime = returned.endTime
                /\ returned'.duration = returned.duration]_vars

\* ------------------------------------------- sentinel and listeners together

\* C37: once the interaction recorder's sentinel is set and the session
\* recorder is in the page, the recorder's listeners are installed, and a
\* click made while recording adds an entry to the interactions buffer.
C37_SentinelMeansListeners ==
    [][/\ (page'.sentinel["interactions"] /\ page'.layers["session"] > 0) =>
             page'.layers["interactions"] > 0
       /\ (PageClick /\ page.isRecording /\ page.sentinel["interactions"]) =>
             page'.sessionInteractions > page.sessionInteractions]_vars

\* ------------------------------------------------------- saving of reports
\* Background script: each SAVE_REPORT message starts saveReport(report),
\* an async function: it awaits getReports() (chrome.storage.local.get),
\* pushes the report onto the list it got and awaits
\* chrome.storage.local.set with that list.  Handlers of several messages
\* run interleaved at their awaits.  A report is named by its number.

MaxReports == 3

\* getReports(): result[STORAGE_KEY] || [], a copy of what is stored
getReports(stored) == stored

BackgroundInit ==
    /\ RecorderInit
    /\ call = NoCall
    /\ page = [phase |-> "background", stored |-> <<>>, handlers |-> <<>>]

\* onMessage, type SAVE_REPORT: saveReport(message.report) runs up to its
\* first await
SaveReportMessage ==
    /\ page.phase = "background"
    /\ Len(page.handlers) < MaxReports
    /\ page' = [page EXCEPT !.handlers =
                  Append(@, [report |-> Len(page.handlers) + 1,
                             pc |-> "get", reports |-> <<>>])]
    /\ UNCHANGED <<recorder, call>>

\* the storage read of one handler completes: var reports = await
\* getReports(); reports.push(report); chrome.storage.local.set is called
ReportsRead ==
    /\ page.phase = "background"
    /\ \E h \in DOMAIN page.handlers :
          /\ page.handlers[h].pc = "get"
          /\ page' = [page EXCEPT
                        !.handlers[h].pc = "set",
                        !.handlers[h].reports =
                            Append(getReports(page.stored), page.handlers[h].report)]
    /\ UNCHANGED <<recorder, call>>

\* the storage write of one handler is done: the stored list is the list
\* the handler passed
ReportsWritten ==
    /\ page.phase = "background"
    /\ \E h \in DOMAIN page.handlers :
          /\ page.handlers[h].pc = "set"
          /\ page' = [page EXCEPT !.handlers[h].pc = "done",
                                  !.stored = page.handlers[h].reports]
    /\ UNCHANGED <<recorder, call>>

BackgroundNext ==
    \/ SaveReportMessage
    \/ ReportsRead
    \/ ReportsWritten

BackgroundSpec == BackgroundInit /\ [][BackgroundNext]_vars

Occurrences(list, report) ==
    Cardinality({i \in DOMAIN list : list[i] = report})

\* C38: when every SAVE_REPORT handler has completed, the stored list holds
\* each saved report exactly once.
C38_NoLostSave ==
    (page.phase = "background"
        /\ \A h \in DOMAIN page.handlers : page.handlers[h].pc = "done") =>
        \A h \in DOMAIN page.handlers :
            Occurrences(page.stored, page.handlers[h].report) = 1

\* ------------------------------------------------- inspector panel timers
\* The panel's startRecording and stopRecording are async functions run by
\* clicks on the start and stop buttons; each awaits evaluations in the
\* inspected page before it touches the panel's state.  updateUI enables
\* the start button while isRecording is false and the stop button while it
\* is true.  Interval timers are numbered as setInterval creates them;
\* interval id 0 stands for null.

MaxClicks == 4

Panel ==
    [phase |-> "panel", isRecording |-> FALSE,
     durationInterval |-> 0, statusPollInterval |-> 0,
     timers |-> {}, nextTimer |-> 1,
     startEnabled |-> TRUE, stopEnabled |-> FALSE,
     injecting |-> 0, starting |-> 0, stopping |-> 0, locating |-> 0,
     clicks |-> 0]

\* setInterval(callback, 1000)
setInterval(p, callback) ==
    [p EXCEPT !.timers = @ \cup {[id |-> p.nextTimer, callback |-> callback]},
              !.nextTimer = @ + 1]

\* clearInterval(id)
clearInterval(p, id) ==
    [p EXCEPT !.timers = {t \in @ : t.id # id}]

startDurationTimer(p) ==
    [setInterval(p, "updateDuration") EXCEPT !.durationInterval = p.nextTimer]

stopDurationTimer(p) ==
    IF p.durationInterval # 0
    THEN [clearInterval(p, p.durationInterval) EXCEPT !.durationInterval = 0]
    ELSE p

startStatusPolling(p) ==
    [setInterval(p, "pollStatus") EXCEPT !.statusPollInterval = p.nextTimer]

stopStatusPolling(p) ==
    IF p.statusPollInterval # 0
    THEN [clearInterval(p, p.statusPollInterval) EXCEPT !.statusPollInterval = 0]
    ELSE p

updateUI(p) ==
    [p EXCEPT !.startEnabled = ~p.isRecording, !.stopEnabled = p.isRecording]

PanelInit ==
    /\ RecorderInit
    /\ call = NoCall
    /\ page = updateUI(Panel)

\* click on the start button: startRecording() runs up to its first await,
\* of injectRecordingScripts()
ClickStart ==
    /\ page.phase = "panel"
    /\ page.startEnabled
    /\ page.clicks < MaxClicks
    /\ page' = [page EXCEPT !.injecting = @ + 1, !.clicks = @ + 1]
    /\ UNCHANGED <<recorder, call>>

\* injectRecordingScripts() of one startRecording() resolves (it never
\* rejects): evalInPage(getStartSessionCode(sessionId)) is called
ScriptsInjected ==
    /\ page.phase = "panel"
    /\ page.injecting > 0
    /\ page' = [page EXCEPT !.injecting = @ - 1, !.starting = @ + 1]
    /\ UNCHANGED <<recorder, call>>

\* the start evaluation of one startRecording() has settled: fulfilled, the
\* rest of the try block runs; rejected, the catch block
StartEvaluated ==
    /\ page.phase = "panel"
    /\ page.starting > 0
    /\ \E ok \in BOOLEAN :
          LET p1 == [page EXCEPT !.starting = @ - 1] IN
          page' = IF ok
                  THEN startStatusPolling(startDurationTimer(
                          updateUI([p1 EXCEPT !.isRecording = TRUE])))
                  ELSE p1
    /\ UNCHANGED <<recorder, call>>

\* click on the stop button: stopRecording() runs up to its first await, of
\* evalInPage(getStopSessionCode())
ClickStop ==
    /\ page.phase = "panel"
    /\ page.stopEnabled
    /\ page.clicks < MaxClicks
    /\ page' = [page EXCEPT !.stopping = @ + 1, !.clicks = @ + 1]
    /\ UNCHANGED <<recorder, call>>

\* the try block's end and the catch block of stopRecording()
stopped(p) ==
    updateUI(stopStatusPolling(stopDurationTimer([p EXCEPT !.isRecording = FALSE])))

\* the stop evaluation of one stopRecording() has settled: fulfilled, the
\* page's URL and title are asked for; rejected, the catch block runs
StopEvaluated ==
    /\ page.phase = "panel"
    /\ page.stopping > 0
    /\ \E ok \in BOOLEAN :
          LET p1 == [page EXCEPT !.stopping = @ - 1] IN
          page' = IF ok THEN [p1 EXCEPT !.locating = @ + 1] ELSE stopped(p1)
    /\ UNCHANGED <<recorder, call>>

\* the evaluation of location.href and document.title has settled: the try
\* block goes on, or the catch block runs
PageInfoEvaluated ==
    /\ page.phase = "panel"
    /\ page.locating > 0
    /\ page' = stopped([page EXCEPT !.locating = @ - 1])
    /\ UNCHANGED <<recorder, call>>

PanelNext ==
    \/ ClickStart
    \/ ScriptsInjected
    \/ StartEvaluated
    \/ ClickStop
    \/ StopEvaluated
    \/ PageInfoEvaluated

PanelSpec == PanelInit /\ [][PanelNext]_vars

Running(callback) == {t \in page.timers : t.callback = callback}

\* C39: at most one duration timer and at most one status-poll timer exist,
\* and none exists while the panel's isRecording is false.
C39_TimersBounded ==
    page.phase = "panel" =>
        /\ Cardinality(Running("updateDuration")) <= 1
        /\ Cardinality(Running("pollStatus")) <= 1
        /\ ~page.isRecording => page.timers = {}

\* ----------------------------------------- observer entries and duplicates
\* The always-on tap logs a request from its fetch or XHR wrapper when the
\* request completes, with the URL as the page passed it and timestamp
\* Date.now() of the completion.  The browser then hands the request's
\* resource-timing entry to the PerformanceObserver callback: its name is
\* the absolute URL and its startTime the start of the request.  Requests
\* made in frames and workers pass no wrapper (intercepted FALSE).  Times
\* are in milliseconds on one clock; the fields request and intercepted of
\* an entry are ghosts naming the request it stands for.

MaxObserved == 2

MaxObserveClock == 1000

OBSERVER_WINDOW == 1000

RequestUrls == {"/api", "https://site/api"}

\* the absolute URL the browser resolves a request URL to
resolveUrl(url) == IF startsWith(url, "/") THEN "https://site" \o url ELSE url

ObservedPage ==
    [phase |-> "observing", clock |-> 0, tapLog |-> <<>>, inflight |-> {},
     finished |-> {}, requests |-> 0]

TapEntry(r, via, url, t) ==
    [request |-> r.id, intercepted |-> r.intercepted, via |-> via,
     url |-> url, timestamp |-> t]

\* Math.abs(x)
abs(x) == IF x < 0 THEN 0 - x ELSE x

\* the PerformanceObserver callback for the resource entry of request r
onResourceEntry(p, r) ==
    LET exists == \E i \in DOMAIN p.tapLog :
                      /\ p.tapLog[i].url = resolveUrl(r.url)
                      /\ abs(p.tapLog[i].timestamp - r.startTime) < OBSERVER_WINDOW
    IN  IF exists THEN p
        ELSE addEntry(p, TapEntry(r, "observer", resolveUrl(r.url), p.clock))

ObserveInit ==
    /\ RecorderInit
    /\ call = NoCall
    /\ page = ObservedPage

\* a request starts: through the tap's fetch wrapper in the page, or in a
\* frame or worker
RequestStarts ==
    /\ page.phase = "observing"
    /\ page.requests < MaxObserved
    /\ \E url \in RequestUrls, intercepted \in BOOLEAN :
          page' = [page EXCEPT
                     !.requests = @ + 1,
                     !.inflight = @ \cup {[id |-> page.requests + 1, url |-> url,
                                           startTime |-> page.clock,
                                           intercepted |-> intercepted]}]
    /\ UNCHANGED <<recorder, call>>

\* a request completes: the wrapper, if the request passed it, logs it
RequestCompletes ==
    /\ page.phase = "observing"
    /\ \E r \in page.inflight :
          LET p1 == [page EXCEPT !.inflight = @ \ {r}, !.finished = @ \cup {r}]
          IN  page' = IF r.intercepted
                      THEN addEntry(p1, TapEntry(r, "fetch", r.url, page.clock))
                      ELSE p1
    /\ UNCHANGED <<recorder, call>>

\* the resource entry of a completed request reaches the observer
ObserverDelivers ==
    /\ page.phase = "observing"
    /\ \E r \in page.finished :
          page' = onResourceEntry([page EXCEPT !.finished = @ \ {r}], r)
    /\ UNCHANGED <<recorder, call>>

ObserveClockAdvance ==
    /\ page.phase = "observing"
    /\ page.clock < MaxObserveClock
    /\ page' = [page EXCEPT !.clock = @ + 500]
    /\ UNCHANGED <<recorder, call>>

ObserveNext ==
    \/ RequestStarts
    \/ RequestCompletes
    \/ ObserverDelivers
    \/ ObserveClockAdvance

ObserveSpec == ObserveInit /\ [][ObserveNext]_vars

\* C40: no request has two entries in the always-on log, and every entry
\* the observer added stands for a request that passed no wrapper.
C40_NoDuplicateEntry ==
    page.phase = "observing" =>
        /\ \A i, j \in DOMAIN page.tapLog :
              page.tapLog[i].request = page.tapLog[j].request => i = j
        /\ \A i \in DOMAIN page.tapLog :
              page.tapLog[i].via = "observer" => ~page.tapLog[i].intercepted

====
